---- MODULE Spec2Model ----
(***************************************************************************)
(* State machine of UnsubscribeAgent.processUnsubscribe (src/src/agent.ts) *)
(* for one link: launch, navigate, consent gate, challenge gate, the       *)
(* plan / execute / reclassify loop, the catch block and the finally       *)
(* block.  The browser capability and the decision oracle are the          *)
(* environment: each awaited call either returns one of a small set of     *)
(* values or throws.                                                       *)
(***************************************************************************)
EXTENDS Integers, Sequences, FiniteSets, TLC

\* -------------------- Tunables (agent.ts 63-76) --------------------

MAX_STEPS == 5
PLAN_PARSE_RETRIES == 2
CAPTCHA_MAX_GRACE_MS == 45000
CAPTCHA_RECHECK_INTERVAL_MS == 4000
MIN_JITTER_MS == 120
MAX_JITTER_MS == 450
\* sleep(30) between the key down and the key up of the simulated input
INPUT_SLEEP_MS == 30

\* the oracle proposes at most this many actions over one run
MaxActions == 2

\* jitter(ms): ms plus an extra drawn from MIN_JITTER_MS..MAX_JITTER_MS
jitter(ms, extra) == ms + extra

\* -------------------- Values --------------------

\* an optional field that is not set (undefined)
Undefined == "undefined"

\* the links handed to a run
Links ==
    { [url |-> "mailto:unsub@example.com", method |-> "MAILTO"],
      [url |-> "mailto:leave@lists.example.org", method |-> "MAILTO"],
      [url |-> "https://example.com/unsubscribe?u=1", method |-> "GET"] }

\* -------------------- Pages --------------------
\* A page is named; BodyText gives the fragments of its visible body text and
\* ChallengeElement says whether an element matches one of the challenge
\* selectors of hasCaptcha.

Pages == {"manage", "gone", "failed", "mixed", "human", "widget"}

BodyText(p) ==
    CASE p = "blank"  -> << >>
      [] p = "manage" -> <<"Manage your email preferences">>
      [] p = "gone"   -> <<"You Have Been Unsubscribed">>
      [] p = "failed" -> <<"Unsubscribe failed">>
      [] p = "mixed"  -> <<"Something went wrong", "You have been unsubscribed">>
      [] p = "human"  -> <<"Verify you are human">>
      [] p = "widget" -> <<"Manage your email preferences">>

ChallengeElement(p) == p = "widget"

\* String.prototype.toLowerCase on the fragments the pages use
ToLowerCase(s) ==
    CASE s = "Manage your email preferences" -> "manage your email preferences"
      [] s = "You Have Been Unsubscribed"    -> "you have been unsubscribed"
      [] s = "You have been unsubscribed"    -> "you have been unsubscribed"
      [] s = "Unsubscribe failed"            -> "unsubscribe failed"
      [] s = "Something went wrong"          -> "something went wrong"
      [] s = "Verify you are human"          -> "verify you are human"
      [] OTHER -> s

\* ((await page.textContent("body")) || "").toLowerCase()
LowerBody(p) == [i \in DOMAIN BodyText(p) |-> ToLowerCase(BodyText(p)[i])]

\* pageText.includes(phrase): the phrase is one of the fragments of the text
Includes(text, phrase) == \E i \in DOMAIN text : text[i] = phrase

knownSuccessPhrases ==
    { "you have been unsubscribed", "successfully unsubscribed",
      "your preferences have been updated", "we're sorry to see you go",
      "we have removed your email", "you are now unsubscribed",
      "unsubscribed from future emails", "we've removed your address",
      "your email has been removed", "thank you for unsubscribing",
      "unsubscribe successfully", "unsubscribed successfully",
      "subscription updated", "opt-out confirmed", "preferences saved",
      "email preferences updated" }

knownFailurePhrases ==
    { "captcha required", "please complete the captcha", "verify you are human",
      "please solve the captcha", "unsubscribe failed", "error occurred",
      "we could not unsubscribe you", "try again later", "something went wrong",
      "access denied", "blocked due to unusual activity" }

\* the body-text test of hasCaptcha
textHit(text) ==
    \/ Includes(text, "verify you are human")
    \/ (Includes(text, "cloudflare") /\ Includes(text, "security of your connection"))
    \/ Includes(text, "needs to review the security")
    \/ Includes(text, "complete the action below")
    \/ Includes(text, "please complete the captcha")
    \/ Includes(text, "press and hold")
    \/ Includes(text, "select all images")

\* hasCaptcha(page): text hit, or a challenge container / iframe / branding
\* element on the page
hasCaptcha(p) == textHit(LowerBody(p)) \/ ChallengeElement(p)

hasSuccess(p) == \E ph \in knownSuccessPhrases : Includes(LowerBody(p), ph)
hasFailure(p) == \E ph \in knownFailurePhrases : Includes(LowerBody(p), ph)

\* -------------------- Decision oracle --------------------

R_PROSE  == "I will click the unsubscribe button."
R_NONE   == "{\"actions\":[],\"finish\":false}"
R_FINISH == "{\"actions\":[],\"finish\":true}"
R_SWIPE  == "{\"actions\":[{\"action\":\"swipe\",\"selector\":\"#unsub\"}],\"finish\":false}"
R_WAITFOR == "{\"actions\":[{\"action\":\"waitForTimeout\",\"selector\":\"#unsub\"}],\"finish\":false}"
R_TWO    == "{\"actions\":[{\"action\":\"click\",\"selector\":\"#unsub\"},{\"action\":\"check\",\"selector\":\"#unsub\"}],\"finish\":false}"

\* the texts generateText may return
Responses == {R_PROSE, R_NONE, R_FINISH, R_SWIPE, R_WAITFOR, R_TWO}

Act(kind) == [action |-> kind, selector |-> "#unsub"]

\* JSON.parse(text): ok with the parsed value, or a SyntaxError
JSONParse(text) ==
    CASE text = R_NONE   -> [ok |-> TRUE, actions |-> <<>>, finish |-> FALSE]
      [] text = R_FINISH -> [ok |-> TRUE, actions |-> <<>>, finish |-> TRUE]
      [] text = R_SWIPE  -> [ok |-> TRUE, actions |-> <<Act("swipe")>>, finish |-> FALSE]
      [] text = R_WAITFOR -> [ok |-> TRUE, actions |-> <<Act("waitForTimeout")>>,
                              finish |-> FALSE]
      [] text = R_TWO    -> [ok |-> TRUE, actions |-> <<Act("click"), Act("check")>>,
                             finish |-> FALSE]
      [] OTHER           -> [ok |-> FALSE, actions |-> <<>>, finish |-> FALSE]

\* let plan = null
NullPlan == [ok |-> FALSE, actions |-> <<>>, finish |-> FALSE]

\* -------------------- Action executor --------------------

KnownActions == {"click", "type", "select", "check", "scroll", "wait"}

E_TIMEOUT == "page.check: Timeout 8000ms exceeded."
E_NONODE  == "No node found for selector: #unsub"
E_CLOSED  == "Target page, context or browser has been closed"
E_LAUNCH  == "browserType.launch: Executable doesn't exist"
E_NAV     == "page.goto: net::ERR_NAME_NOT_RESOLVED"
E_SHOT    == "page.screenshot: Protocol error"
E_ORACLE  == "Failed after 3 attempts. Last error: fetch failed"
E_PLAN    == "Invalid AI plan JSON"

UnknownAction(kind) == "Unknown action: " \o kind

\* the failures a known action's capability call may raise
ActionErrors == {E_TIMEOUT, E_NONODE}

\* one character of String.prototype.toLowerCase
LowerChar(c) ==
    CASE c = "A" -> "a" [] c = "B" -> "b" [] c = "C" -> "c" [] c = "D" -> "d"
      [] c = "E" -> "e" [] c = "F" -> "f" [] c = "G" -> "g" [] c = "H" -> "h"
      [] c = "I" -> "i" [] c = "J" -> "j" [] c = "K" -> "k" [] c = "L" -> "l"
      [] c = "M" -> "m" [] c = "N" -> "n" [] c = "O" -> "o" [] c = "P" -> "p"
      [] c = "Q" -> "q" [] c = "R" -> "r" [] c = "S" -> "s" [] c = "T" -> "t"
      [] c = "U" -> "u" [] c = "V" -> "v" [] c = "W" -> "w" [] c = "X" -> "x"
      [] c = "Y" -> "y" [] c = "Z" -> "z" [] OTHER -> c

\* (e?.message || "").toLowerCase().includes(sig), character by character
LowerIncludes(m, sig) ==
    \E i \in 1..(Len(m) - Len(sig) + 1) :
        \A k \in 1..Len(sig) :
            LowerChar(SubSeq(m, i + k - 1, i + k - 1)) = SubSeq(sig, k, k)

OverlaySignatures ==
    { "not visible", "not receiv", "intercepted", "timeout", "element is outside",
      "detached from dom" }

\* every failure taken for an overlay failure
looksOverlayAlways(msg) == msg = msg

\* looksOverlay: the lowercased message contains one of the overlay signatures
looksOverlay(msg) ==
    \E sig \in OverlaySignatures : LowerIncludes(msg, sig)

\* the timeoutMs the consent handler is given on load and in the retry path
CONSENT_LOAD_TIMEOUT_MS == 15000
CONSENT_RETRY_TIMEOUT_MS == 7000

\* -------------------- Results --------------------

Image == "data:image/png;base64,iVBORw0KGgo="

\* return { success: true, method: "MAILTO", ... } (no steps, no screenshot)
MailtoResult(l) ==
    [ success |-> TRUE, method |-> "MAILTO", error |-> Undefined,
      details |-> "Send email to " \o l.url, captchaBlocked |-> FALSE,
      hasSteps |-> FALSE, steps |-> << >>, screenshot |-> Undefined,
      keys |-> {"success", "method", "details", "logs", "jsonlLogs", "runId"} ]

CaptchaDetails(g) ==
    IF g = "initial"
    THEN "CAPTCHA persisted after grace window. Manual intervention likely required."
    ELSE "CAPTCHA appeared mid-flow and persisted after grace window."

CaptchaResult(g, st) ==
    [ success |-> FALSE, method |-> "AUTOMATED", error |-> Undefined,
      details |-> CaptchaDetails(g), captchaBlocked |-> TRUE,
      hasSteps |-> TRUE, steps |-> st, screenshot |-> Image,
      keys |-> {"success", "method", "captchaBlocked", "details", "steps",
                "screenshot", "logs", "jsonlLogs", "runId"} ]

FailureResult(st) ==
    [ success |-> FALSE, method |-> "AUTOMATED", error |-> Undefined,
      details |-> "Failure phrase detected and no success confirmation.",
      captchaBlocked |-> FALSE, hasSteps |-> TRUE, steps |-> st,
      screenshot |-> Image,
      keys |-> {"success", "method", "details", "steps", "screenshot", "logs",
                "jsonlLogs", "runId"} ]

FinalResult(st) ==
    [ success |-> TRUE, method |-> "AUTOMATED", error |-> Undefined,
      details |-> "Unsubscribe completed", captchaBlocked |-> FALSE,
      hasSteps |-> TRUE, steps |-> st, screenshot |-> Image,
      keys |-> {"success", "method", "details", "steps", "screenshot", "logs",
                "jsonlLogs", "runId"} ]

\* the catch block's result marked as blocked by a challenge
ErrorResultBlocked(msg, st, shot) ==
    [ success |-> FALSE, method |-> "ERROR", error |-> msg,
      details |-> Undefined, captchaBlocked |-> TRUE,
      hasSteps |-> TRUE, steps |-> st, screenshot |-> shot,
      keys |-> {"success", "method", "captchaBlocked", "error", "steps",
                "screenshot", "logs", "jsonlLogs", "runId"} ]

\* the object literal the catch block returns
ErrorResult(msg, st, shot) ==
    [ success |-> FALSE, method |-> "ERROR", error |-> msg,
      details |-> Undefined, captchaBlocked |-> FALSE,
      hasSteps |-> TRUE, steps |-> st, screenshot |-> shot,
      keys |-> {"success", "method", "error", "steps", "screenshot", "logs",
                "jsonlLogs", "runId"} ]

NoResult == [ success |-> FALSE, method |-> "none", error |-> Undefined,
              details |-> Undefined, captchaBlocked |-> FALSE,
              hasSteps |-> FALSE, steps |-> << >>, screenshot |-> Undefined,
              keys |-> {} ]

\* -------------------- State --------------------

VARIABLES
    link,        \* the link the run was called with
    pc,          \* position of processUnsubscribe
    browser,     \* "null" | "open" | "closed"
    context,     \* "null" | "open" | "closed"
    hasPage,     \* context.newPage() returned: context.pages()[0] exists
    page,        \* the page the browser shows
    steps,       \* const steps: ActionStep[]
    stepCount,   \* let stepCount
    isDone,      \* let isDone
    lastResult,  \* let lastResult
    plan,        \* the plan of the iteration in progress
    r,           \* the retry index of the plan parse loop
    actIdx,      \* index of the next action of the plan
    gate,        \* "initial" | "mid": which consent / challenge gate is running
    attempt,     \* waitOutCaptchaIfPresent: let attempt
    elapsed,     \* waitOutCaptchaIfPresent: Date.now() - start
    err,         \* the exception caught by the catch block
    retval,      \* the value of the return statement, held while finally runs
    result,      \* the UnsubscribeResult the caller received
    finishBy,    \* context.by of the "Finish triggered" log entry
    closeTried,  \* observer: the close() calls the finally block made
    closeFailed, \* observer: the close() calls that rejected
    iterations,  \* observer: bodies of the step loop entered so far
    inflight,    \* a page.click the race of performOnce left behind still runs
    seen         \* observer: what happened in the run

\* Several runs of processUnsubscribe on the one shared agent, each with the
\* objects it creates at 510-512, seen at the suspension points of the runs.
VARIABLES
    rpc,         \* position of each run
    runIds,      \* const runId of each run
    logRef,      \* const log of each run: the Logger object it refers to
    stepsRef,    \* const steps of each run: the array it refers to
    loggers,     \* heap: the Logger objects, their runId and logs array
    stepArrays,  \* heap: the steps arrays
    listening,   \* the page observers of the run's context can still fire
    results      \* the result object each run constructed

logv   == <<rpc, runIds, logRef, stepsRef, loggers, stepArrays, listening,
           results>>
\* The timing of the steps of one action loop, read off the system clock.
VARIABLES
    now,         \* the system clock, in ms
    tpc,         \* position in the body of the action loop
    step,        \* const step: the ActionStep under construction
    t0,          \* const t0
    timed        \* the steps pushed so far

clockv == <<now, tpc, step, t0, timed>>

\* One call of acceptCookieBanners on a page with frames.
VARIABLES
    frames,             \* the page: the visible elements of each frame
    page0,              \* the page as it was when the call started
    apc,                \* position of acceptCookieBanners
    timeoutMs,          \* const timeoutMs
    spent,              \* Date.now() - start
    fi,                 \* index of the frame the for loop is at
    clickedAny,         \* let clickedAny
    didClickThisRound,  \* let didClickThisRound
    aret,               \* how the call ended: "true" | "false" | "threw"
    okClicks,           \* observer: the clicks that completed
    badClicks           \* observer: the clicks that failed

consentv == <<frames, page0, apc, timeoutMs, spent, fi, clickedAny,
              didClickThisRound, aret, okClicks, badClicks>>

\* One call of waitOutCaptchaIfPresent.
VARIABLES
    wpage,       \* the page the call is given
    wpc,         \* position of waitOutCaptchaIfPresent
    wattempt,    \* let attempt
    waited,      \* Date.now() - start, counting the sleeps of the call
    wret,        \* how the call ended: "true" | "false" | "threw"
    inputs,      \* observer: simulated inputs begun
    sleeps,      \* observer: recheck sleeps made
    reloads,     \* observer: the attempts after which the page was reloaded
    nChecks,     \* observer: calls of hasCaptcha that returned
    nNegative,   \* observer: those that found no challenge
    detections,   \* observer: page before, page after and result of each call
    reloadErrors   \* observer: the attempts whose reload failed and was logged

waitv == <<wpage, wpc, wattempt, waited, wret, inputs, sleeps, reloads,
           nChecks, nNegative, detections, reloadErrors>>

\* One call of unsubscribeFromHtml: the batch driver.
VARIABLES
    bpc,           \* position of unsubscribeFromHtml
    blinks,        \* const links: what extractUnsubscribeLinks returned
    bi,            \* index of the link the for loop is at
    bresults,      \* const results
    successCount,  \* let successCount
    bret,          \* how the call ended: the returned object, or rejected
    active,        \* observer: the links whose run is in progress
    openBrowsers,  \* observer: the links whose browser has not been released
    maxActive      \* observer: the most runs in progress at one time

batchv == <<bpc, blinks, bi, bresults, successCount, bret, active, openBrowsers,
            maxActive>>

\* One pass of the plan parse loop and the use of its plan.
VARIABLES
    ppc,           \* position: idle, try, use, done
    pr,            \* let r of the parse loop
    ptexts,        \* observer: the texts generateText returned, in order
    pvalue,        \* let plan
    pacts,         \* the actions the for-of loop iterates
    pfinish,       \* whether plan?.finish is truthy
    pret,          \* how the pass ended: "plan", or the error thrown
    asked,         \* observer: the calls of generateText in this pass
    backoffs       \* observer: the calls of sleep(jitter(400)) in this pass

planv == <<ppc, pr, ptexts, pvalue, pacts, pfinish, pret, asked, backoffs>>

\* The markup handed to the oracle over the iterations of the step loop.
VARIABLES
    mpc,           \* position in the step loop
    mpage,         \* the page as it is now
    lastHtml,      \* let lastHtml
    embedded,      \* the markup embedded in the last plan request
    since,         \* observer: page-changing operations since lastHtml was captured
    mstep          \* let stepCount

markupv == <<mpc, mpage, lastHtml, embedded, since, mstep>>
\* the state outside one run of processUnsubscribe
side   == <<logv, clockv, consentv, waitv, batchv, planv, markupv>>

resv   == <<browser, context, hasPage>>
\* what lives inside the try body and is out of scope once control leaves it
locals == <<page, gate, stepCount, isDone, lastResult, plan, r, actIdx,
            attempt, elapsed, iterations, inflight>>
outv   == <<err, retval, result, closeTried, closeFailed>>
vars   == <<link, pc, steps, finishBy, seen, resv, locals, outv, side>>

\* the runs of the agent, as many as the batch or the concurrent requests make
MaxRuns == 2
Runs == 1..MaxRuns
\* the most entries a Logger is followed for
MaxEntries == 2
\* run_${Date.now()}_${five base-36 digits}: two runs started in the same
\* millisecond may draw the same digits
RunIdValues == {"run_1700000000000_k3x9a", "run_1700000000000_p07qz"}
\* the ids run n may draw; the ids are interchangeable, so the id of run 1 is
\* fixed and every other run may draw the same or another one
RunIdChoices(n) ==
    IF n = 1 THEN {"run_1700000000000_k3x9a"} ELSE RunIdValues
NoLogger == [ runId |-> Undefined, logs |-> << >> ]
NoRunResult == [ method |-> "none", runId |-> Undefined, logs |-> 0,
                 jsonlLogs |-> << >>, steps |-> 0 ]

RunsInit ==
    /\ rpc = [n \in Runs |-> "idle"]
    /\ runIds = [n \in Runs |-> Undefined]
    /\ logRef = [n \in Runs |-> 0]
    /\ stepsRef = [n \in Runs |-> 0]
    /\ loggers = [n \in Runs |-> NoLogger]
    /\ stepArrays = [n \in Runs |-> << >>]
    /\ listening = [n \in Runs |-> FALSE]
    /\ results = [n \in Runs |-> NoRunResult]

\* the clock is followed for MaxClock ms and the loop for MaxTimedSteps actions
MaxClock == 3
MaxTimedSteps == 1
NoStep == [ startedAt |-> Undefined, finishedAt |-> Undefined, durationMs |-> Undefined ]

\* the frames of the page the consent handler is followed on
MaxFrames == 2
Frames == 1..MaxFrames
\* the polls of 200 ms the longest budget of a followed call allows
MaxPolls == 3

ConsentIdle ==
    /\ frames = [f \in Frames |-> {}]
    /\ page0 = [f \in Frames |-> {}]
    /\ apc = "idle"
    /\ timeoutMs = 0
    /\ spent = 0
    /\ fi = 1
    /\ clickedAny = FALSE
    /\ didClickThisRound = FALSE
    /\ aret = "none"
    /\ okClicks = {}
    /\ badClicks = {}

WaitIdle ==
    /\ wpage = "blank"
    /\ wpc = "idle"
    /\ wattempt = 0
    /\ waited = 0
    /\ wret = "none"
    /\ inputs = 0
    /\ sleeps = 0
    /\ reloads = {}
    /\ nChecks = 0
    /\ nNegative = 0
    /\ detections = {}
    /\ reloadErrors = {}

\* the links one batch is followed for
MaxLinks == 2

BatchIdle ==
    /\ bpc = "idle"
    /\ blinks = << >>
    /\ bi = 1
    /\ bresults = << >>
    /\ successCount = 0
    /\ bret = [ status |-> "none" ]
    /\ active = {}
    /\ openBrowsers = {}
    /\ maxActive = 0

\* let plan = null
NullValue ==
    [ok |-> TRUE, kind |-> "null", actionsKind |-> "absent", actions |-> << >>,
     finishKind |-> "absent", finish |-> FALSE]

PlanIdle ==
    /\ ppc = "idle"
    /\ pr = 0
    /\ ptexts = << >>
    /\ pvalue = NullValue
    /\ pacts = << >>
    /\ pfinish = FALSE
    /\ pret = "none"
    /\ asked = 0
    /\ backoffs = 0

MarkupIdle ==
    /\ mpc = "idle"
    /\ mpage = "blank"
    /\ lastHtml = "blank"
    /\ embedded = "blank"
    /\ since = {}
    /\ mstep = 0

Init ==
    /\ RunsInit
    /\ ConsentIdle
    /\ WaitIdle
    /\ BatchIdle
    /\ PlanIdle
    /\ MarkupIdle
    /\ now = 0
    /\ tpc = "startedAt"
    /\ step = NoStep
    /\ t0 = 0
    /\ timed = << >>
    /\ link \in Links
    /\ pc = "start"
    /\ browser = "null"
    /\ context = "null"
    /\ hasPage = FALSE
    /\ page = "blank"
    /\ steps = << >>
    /\ stepCount = 0
    /\ isDone = FALSE
    /\ lastResult = ""
    /\ plan = NullPlan
    /\ r = 0
    /\ actIdx = 1
    /\ gate = "initial"
    /\ attempt = 0
    /\ elapsed = 0
    /\ err = Undefined
    /\ retval = NoResult
    /\ result = NoResult
    /\ finishBy = Undefined
    /\ closeTried = {}
    /\ closeFailed = {}
    /\ iterations = 0
    /\ inflight = FALSE
    /\ seen = {}

\* control leaves the try body: its locals go out of scope and nothing reads the
\* page any more (the screenshots that follow are modelled by their outcome)
Leave ==
    /\ page' = "blank"
    /\ gate' = "initial"
    /\ stepCount' = 0
    /\ isDone' = FALSE
    /\ lastResult' = ""
    /\ plan' = NullPlan
    /\ r' = 0
    /\ actIdx' = 1
    /\ attempt' = 0
    /\ elapsed' = 0
    /\ iterations' = 0
    /\ inflight' = FALSE

\* an awaited call inside the try block rejects: control moves to the catch block
Throw(msg) ==
    /\ err' = msg
    /\ pc' = "catch"
    /\ Leave
    /\ UNCHANGED retval

\* a return statement inside try or catch: the value is held until finally ends
Return(value) ==
    /\ retval' = value
    /\ pc' = "finally"
    /\ Leave
    /\ UNCHANGED err

\* control stays in the try body
Go(label) ==
    /\ pc' = label
    /\ UNCHANGED <<err, retval>>

\* -------------------- Init state of the run, MAILTO short-circuit --------------------

\* Start with the method compared in the wrong case: no link short-circuits
StartLowerCaseMethod ==
    /\ pc = "start"
    /\ IF link.method = "mailto"
       THEN /\ result' = MailtoResult(link)
            /\ pc' = "returned"
       ELSE /\ pc' = "launch"
            /\ UNCHANGED result
    /\ UNCHANGED <<side, link, steps, finishBy, seen, resv, locals, err, retval, closeTried,
                   closeFailed>>

Start ==
    /\ pc = "start"
    /\ IF link.method = "MAILTO"
       THEN /\ result' = MailtoResult(link)
            /\ pc' = "returned"
       ELSE /\ pc' = "launch"
            /\ UNCHANGED result
    /\ UNCHANGED <<side, link, steps, finishBy, seen, resv, locals, err, retval, closeTried,
                   closeFailed>>

\* browser = await chromium.launch(...)
Launch ==
    /\ pc = "launch"
    /\ \/ /\ browser' = "open"
          /\ Go("newContext")
          /\ UNCHANGED locals
       \/ /\ Throw(E_LAUNCH)
          /\ UNCHANGED browser
    /\ UNCHANGED <<side, link, steps, finishBy, seen, context, hasPage, result, closeTried, closeFailed>>

\* context = await browser.newContext(...)
NewContext ==
    /\ pc = "newContext"
    /\ \/ /\ context' = "open"
          /\ Go("newPage")
          /\ UNCHANGED locals
       \/ /\ Throw(E_CLOSED)
          /\ UNCHANGED context
    /\ UNCHANGED <<side, link, steps, finishBy, seen, browser, hasPage, result, closeTried, closeFailed>>

\* const page = await context.newPage()
NewPage ==
    /\ pc = "newPage"
    /\ \/ /\ hasPage' = TRUE
          /\ Go("goto")
          /\ UNCHANGED locals
       \/ /\ Throw(E_CLOSED)
          /\ UNCHANGED hasPage
    /\ UNCHANGED <<side, link, steps, finishBy, seen, browser, context, result, closeTried, closeFailed>>

\* the gates entered with the challenge check first
ChallengeFirst == "captchaCheck"

\* the first of the two gates, after navigation (563) and mid-flow (730):
\* acceptCookieBanners, and only after it waitOutCaptchaIfPresent
GateEntry == "consent"

\* page.goto with its rejection swallowed: the run goes on with the page as it is
GotoIgnoresFailure ==
    /\ pc = "goto"
    /\ \/ /\ page' \in Pages
          /\ UNCHANGED seen
       \/ /\ UNCHANGED page
          /\ seen' = seen \cup {"navFailed"}
    /\ Go(GateEntry)
    /\ UNCHANGED <<gate, stepCount, isDone, lastResult, plan, r, actIdx,
                   attempt, elapsed, iterations, inflight>>
    /\ UNCHANGED <<side, link, steps, finishBy, resv, result, closeTried, closeFailed>>

\* await page.goto(link.url, {waitUntil: "domcontentloaded", timeout: NAV_TIMEOUT})
Goto ==
    /\ pc = "goto"
    /\ \/ /\ page' \in Pages
          /\ Go(GateEntry)
          /\ UNCHANGED <<gate, stepCount, isDone, lastResult, plan, r, actIdx,
                         attempt, elapsed, iterations, inflight>>
          /\ UNCHANGED seen
       \/ /\ Throw(E_NAV)
          /\ seen' = seen \cup {"navFailed"}
    /\ UNCHANGED <<side, link, steps, finishBy, resv, result, closeTried, closeFailed>>

\* -------------------- Consent gate --------------------

\* acceptCookieBanners(page, log, {timeoutMs}): what a call can do.  It clicks
\* nothing and returns false, or clicks an accept button (known selector or
\* generic button text), after which the page may be another one, and returns
\* true; page.waitForTimeout outside its try blocks may reject.
acceptCookieBanners(p) ==
    {[threw |-> FALSE, clicked |-> FALSE, page |-> p]}
        \cup {[threw |-> FALSE, clicked |-> TRUE, page |-> q] : q \in Pages}
        \cup {[threw |-> TRUE, clicked |-> FALSE, page |-> p]}

\* where the run goes when the challenge gate reports cleared
AfterGate(g) == IF g = "initial" THEN "content" ELSE "classify"

\* acceptCookieBanners on load (563-567) and mid-flow (730-734), followed by
\* waitForLoadSettled when it returned true
ConsentGate ==
    /\ pc = "consent"
    /\ \E o \in acceptCookieBanners(page) :
        \/ /\ o.threw
           /\ Throw(E_CLOSED)
        \/ /\ ~o.threw
           /\ page' = o.page
           /\ Go("captchaCheck")
           /\ UNCHANGED <<gate, stepCount, isDone, lastResult, plan, r, actIdx,
                          attempt, elapsed, iterations, inflight>>
        \/ /\ ~o.threw
           /\ o.clicked
           /\ Throw(E_CLOSED)
    /\ seen' = seen \cup {"consentHandler"}
    /\ UNCHANGED <<side, link, steps, finishBy, resv, result, closeTried, closeFailed>>

\* -------------------- Challenge gate: waitOutCaptchaIfPresent --------------------

\* if (!(await hasCaptcha(page, log))) return true;  const start = Date.now()
CaptchaCheck ==
    /\ pc = "captchaCheck"
    /\ \/ Throw(E_CLOSED)
       \/ /\ ~hasCaptcha(page)
          /\ Go(AfterGate(gate))
          /\ UNCHANGED locals
       \/ /\ hasCaptcha(page)
          /\ Go("captchaWait")
          /\ UNCHANGED locals
    /\ seen' = seen \cup {"challengeMonitor"}
    /\ UNCHANGED <<side, link, steps, finishBy, resv, result, closeTried, closeFailed>>

\* one round of the poll loop: the guard, attempt++, the simulated input, the
\* jittered sleep (during which the page may change) and the recheck, with the
\* jitter extra drawn from Extras
CaptchaPollWith(Extras) ==
    /\ pc = "captchaWait"
    /\ elapsed < CAPTCHA_MAX_GRACE_MS
    /\ \/ Throw(E_CLOSED)
       \/ \E p2 \in Pages :
            /\ ~hasCaptcha(p2)
            /\ page' = p2
            /\ Go(AfterGate(gate))
            /\ attempt' = 0
            /\ elapsed' = 0
            /\ UNCHANGED <<gate, stepCount, isDone, lastResult, plan, r,
                           actIdx, iterations, inflight>>
       \/ \E extra \in Extras, p2 \in Pages :
            /\ hasCaptcha(p2)
            /\ page' = p2
            /\ attempt' = attempt + 1
            /\ elapsed' = elapsed + INPUT_SLEEP_MS
                            + jitter(CAPTCHA_RECHECK_INTERVAL_MS, extra)
            /\ Go(IF (attempt + 1) % 3 = 0 THEN "captchaReload" ELSE "captchaWait")
            /\ UNCHANGED <<gate, stepCount, isDone, lastResult, plan, r,
                           actIdx, iterations, inflight>>
    /\ UNCHANGED <<side, link, steps, finishBy, seen, resv, result, closeTried, closeFailed>>

\* the poll round inside a run: the sleep takes its longest
CaptchaPoll == CaptchaPollWith({MAX_JITTER_MS})

\* a reload after which the grace window starts anew
CaptchaReloadRestartsGrace ==
    /\ pc = "captchaReload"
    /\ \/ page' \in Pages
       \/ UNCHANGED page
    /\ Go("captchaWait")
    /\ attempt' = 0
    /\ elapsed' = 0
    /\ UNCHANGED <<gate, stepCount, isDone, lastResult, plan, r, actIdx,
                   iterations, inflight>>
    /\ UNCHANGED <<side, link, steps, finishBy, seen, resv, result, closeTried, closeFailed>>

\* if (attempt % 3 === 0) { try { await page.reload(...) } catch { log } }
CaptchaReload ==
    /\ pc = "captchaReload"
    /\ \/ page' \in Pages
       \/ UNCHANGED page
    /\ Go("captchaWait")
    /\ UNCHANGED <<gate, stepCount, isDone, lastResult, plan, r, actIdx,
                   attempt, elapsed, iterations, inflight>>
    /\ UNCHANGED <<side, link, steps, finishBy, seen, resv, result, closeTried, closeFailed>>

\* the guard fails: "CAPTCHA persisted after grace window."; return false
CaptchaExpire ==
    /\ pc = "captchaWait"
    /\ elapsed >= CAPTCHA_MAX_GRACE_MS
    /\ Go("captchaShot")
    /\ attempt' = 0
    /\ elapsed' = 0
    /\ seen' = seen \cup {"persisted"}
    /\ UNCHANGED <<page, gate, stepCount, isDone, lastResult, plan, r, actIdx,
                   iterations, inflight>>
    /\ UNCHANGED <<side, link, steps, finishBy, resv, result, closeTried, closeFailed>>

\* if (!captchaCleared) { screenshot; return {captchaBlocked: true, ...} }
CaptchaBlocked ==
    /\ pc = "captchaShot"
    /\ \/ Return(CaptchaResult(gate, steps))
       \/ Throw(E_SHOT)
    /\ UNCHANGED <<side, link, steps, finishBy, seen, resv, result, closeTried, closeFailed>>

\* -------------------- Main step loop --------------------

\* let stepCount = 0; let isDone = false; let lastHtml = await page.content();
\* let lastResult = ""
LoopInit ==
    /\ pc = "content"
    /\ \/ /\ Go("loop")
          /\ UNCHANGED locals
       \/ Throw(E_CLOSED)
    /\ UNCHANGED <<side, link, steps, finishBy, seen, resv, result, closeTried, closeFailed>>

\* the loop guard off by one
LoopCondOffByOne == stepCount <= MAX_STEPS /\ ~isDone

\* while (stepCount < MAX_STEPS && !isDone)
LoopCond == stepCount < MAX_STEPS /\ ~isDone

LoopGuard ==
    /\ pc = "loop"
    /\ IF LoopCond
       THEN /\ Go("plan")
            /\ iterations' = iterations + 1
            /\ seen' = seen \cup {"oracle"}
       ELSE /\ Go("finalShot")
            /\ seen' = IF isDone THEN seen ELSE seen \cup {"exhausted"}
            /\ UNCHANGED iterations
    /\ plan' = NullPlan
    /\ r' = 0
    /\ UNCHANGED <<page, gate, stepCount, isDone, lastResult, actIdx, attempt, elapsed,
                   inflight>>
    /\ UNCHANGED <<side, link, steps, finishBy, resv, result, closeTried, closeFailed>>

\* the parse loop ending without a throw after the last attempt: the run goes
\* on with plan = null
PlanParseSwallowed ==
    IF r < PLAN_PARSE_RETRIES
    THEN /\ r' = r + 1
         /\ Go("plan")
         /\ UNCHANGED <<page, gate, stepCount, isDone, lastResult, plan, actIdx,
                        attempt, elapsed, iterations, inflight>>
         /\ UNCHANGED seen
    ELSE /\ Go("exec")
         /\ plan' = NullPlan
         /\ actIdx' = 1
         /\ seen' = seen \cup {"planExhausted"}
         /\ UNCHANGED <<page, gate, stepCount, isDone, lastResult, r, attempt,
                        elapsed, iterations, inflight>>

\* the catch clause of the parse loop: retry after a jittered sleep, or give up
PlanParseFailed ==
    IF r < PLAN_PARSE_RETRIES
    THEN /\ r' = r + 1
         /\ Go("plan")
         /\ UNCHANGED <<page, gate, stepCount, isDone, lastResult, plan, actIdx,
                        attempt, elapsed, iterations, inflight>>
         /\ UNCHANGED seen
    ELSE /\ Throw(E_PLAN)
         /\ seen' = seen \cup {"planExhausted"}

\* one attempt of for (let r = 0; r <= PLAN_PARSE_RETRIES; r++)
PlanAttempt ==
    /\ pc = "plan"
    /\ \/ \E text \in Responses :
            /\ JSONParse(text).ok
            /\ Len(steps) + Len(JSONParse(text).actions) <= MaxActions
            /\ plan' = JSONParse(text)
            /\ actIdx' = 1
            /\ Go("exec")
            /\ UNCHANGED <<page, gate, stepCount, isDone, lastResult, r,
                           attempt, elapsed, iterations, inflight>>
            /\ UNCHANGED seen
       \/ \E text \in Responses :
            /\ ~JSONParse(text).ok
            /\ PlanParseFailed
       \/ PlanParseFailed
    /\ UNCHANGED <<side, link, steps, finishBy, resv, result, closeTried, closeFailed>>

\* the timeouts of the click case: page.waitForNavigation({timeout: jitter(5000)})
\* raced against page.click(selector, {timeout: ACTION_TIMEOUT})
ACTION_TIMEOUT == 8000
CLICK_NAV_WAIT_MS == 5000

\* case "click": Promise.race([waitForNavigation(...).catch(() => undefined),
\* page.click(...)]). The race settles with whichever settles first: the click
\* ("ok" or its early error), or the navigation wait, which resolves on a
\* navigation and also, through its catch, when its timeout expires. When
\* that timeout can expire before the click's own, the race can resolve while
\* the click is still running ("pending") and the click's timeout error never
\* surfaces; otherwise the click can time out first.
performClick ==
    {"ok", E_NONODE}
        \cup (IF jitter(CLICK_NAV_WAIT_MS, MAX_JITTER_MS) < ACTION_TIMEOUT
              THEN {"pending"} ELSE {})
        \cup (IF ACTION_TIMEOUT <= jitter(CLICK_NAV_WAIT_MS, MIN_JITTER_MS)
              THEN {E_TIMEOUT} ELSE {})

\* performOnce: it returns ("ok", or "pending" when it returns with the click
\* still running) or throws a message
performOnce(act) ==
    IF act.action = "click" THEN performClick
    ELSE IF act.action \in KnownActions THEN {"ok"} \cup ActionErrors
    ELSE {UnknownAction(act.action)}

\* performOnce returned normally
Returned(x) == x \in {"ok", "pending"}

\* observer: what one call of performActionWithCookieRetry did. first and
\* last are the outcomes of the first and of the last performOnce, consent the
\* timeoutMs of each acceptCookieBanners call, cleared its return value,
\* settled whether waitForLoadSettled completed, attempts the number of
\* performOnce calls
Trail(first, last, consent, cleared, settled, attempts) ==
    [first |-> first, last |-> last, consent |-> consent, cleared |-> cleared,
     settled |-> settled, attempts |-> attempts]

Outcome(ok, msg, threw, touched, trail) ==
    [ok |-> ok, err |-> msg, threw |-> threw, touched |-> touched, trail |-> trail]

\* the catch branch taken for an overlay-like first failure, with a retry
\* whether or not a banner was cleared
RetryPathAlways(act, first) ==
    LET once == <<CONSENT_RETRY_TIMEOUT_MS>> IN
    UNION { IF c.threw
            THEN {Outcome(FALSE, E_CLOSED, TRUE, FALSE,
                          Trail(first, first, once, FALSE, FALSE, 1))}
            ELSE {Outcome(FALSE, E_CLOSED, TRUE, c.clicked,
                          Trail(first, first, once, c.clicked, FALSE, 1))}
                 \cup { Outcome(Returned(second),
                                IF Returned(second) THEN Undefined ELSE second,
                                FALSE, c.clicked \/ second = "ok",
                                Trail(first, second, once, c.clicked, TRUE, 2))
                        : second \in performOnce(act) }
          : c \in acceptCookieBanners("blank") }

\* the catch branch taken for an overlay-like first failure (631-645):
\* acceptCookieBanners rejects; or returns false and the first error is
\* reported; or returns true, after which waitForLoadSettled rejects or the
\* action is performed once more
RetryPath(act, first) ==
    LET once == <<CONSENT_RETRY_TIMEOUT_MS>> IN
    UNION { IF c.threw
            THEN {Outcome(FALSE, E_CLOSED, TRUE, FALSE,
                          Trail(first, first, once, FALSE, FALSE, 1))}
            ELSE IF ~c.clicked
            THEN {Outcome(FALSE, first, FALSE, FALSE,
                          Trail(first, first, once, FALSE, FALSE, 1))}
            ELSE {Outcome(FALSE, E_CLOSED, TRUE, TRUE,
                          Trail(first, first, once, TRUE, FALSE, 1))}
                 \cup { Outcome(Returned(second),
                                IF Returned(second) THEN Undefined ELSE second,
                                FALSE, TRUE,
                                Trail(first, second, once, TRUE, TRUE, 2))
                        : second \in performOnce(act) }
          : c \in acceptCookieBanners("blank") }

\* performActionWithCookieRetry(act): the outcomes of one call. ok with
\* {ok: true}; err is the message of {ok: false, err}; threw when the call
\* rejects; touched when something on the page was clicked or filled
performActionWithCookieRetry(act) ==
    UNION { IF Returned(first)
            THEN {Outcome(TRUE, Undefined, FALSE, first = "ok",
                          Trail(first, first, << >>, FALSE, FALSE, 1))}
            ELSE IF ~looksOverlay(first)
            THEN {Outcome(FALSE, first, FALSE, FALSE,
                          Trail(first, first, << >>, FALSE, FALSE, 1))}
            ELSE RetryPath(act, first)
          : first \in performOnce(act) }

\* the call returned {ok: true} with the click of its last attempt still running
LeftRunning(o) == ~o.threw /\ o.trail.last = "pending"

\* observer: what the execution of one action showed
ExecTags(act, o) ==
    (IF o.trail.attempts = 2 THEN {"retried"} ELSE {})
        \cup (IF act.action \notin KnownActions /\ o.touched
              THEN {"unknownTouched"} ELSE {})
        \cup (IF LeftRunning(o) THEN {"stepBeforeFinish"} ELSE {})
        \cup (IF inflight THEN {"overlap"} ELSE {})

\* the ActionStep pushed in the finally clause of the action loop
StepOf(act, o) ==
    [ action |-> act.action, selector |-> act.selector,
      result |-> IF o.ok /\ ~o.threw THEN "success" ELSE Undefined,
      error  |-> IF ~o.ok /\ ~o.threw THEN o.err ELSE Undefined ]

\* for (const act of plan?.actions || []) { ... }: one action of the plan
ExecAction ==
    /\ pc = "exec"
    /\ actIdx <= Len(plan.actions)
    /\ \E o \in performActionWithCookieRetry(plan.actions[actIdx]), p2 \in Pages :
        /\ (o.touched \/ p2 = page)
        /\ steps' = Append(steps, StepOf(plan.actions[actIdx], o))
        /\ seen' = seen \cup ExecTags(plan.actions[actIdx], o)
        /\ \/ /\ o.threw
              /\ Throw(o.err)
           \/ /\ ~o.threw
              /\ page' = p2
              /\ lastResult' = IF o.ok THEN "success" ELSE "error: " \o o.err
              /\ actIdx' = actIdx + 1
              /\ inflight' = (inflight \/ LeftRunning(o))
              /\ Go("exec")
              /\ UNCHANGED <<gate, stepCount, isDone, plan, r, attempt, elapsed,
                             iterations>>
    /\ UNCHANGED <<side, link, finishBy, resv, result, closeTried, closeFailed>>

\* the click the race left behind settles while the run is suspended at some
\* await of the try body: it lands, and the page may become another one, or
\* it fails, and its rejection is dropped by the race
ClickSettles ==
    /\ inflight
    /\ pc \in {"exec", "consent", "captchaCheck", "captchaWait", "captchaReload",
               "classify", "loop", "plan"}
    /\ inflight' = FALSE
    /\ \/ page' \in Pages
       \/ UNCHANGED page
    /\ UNCHANGED <<pc, err, retval>>
    /\ UNCHANGED <<gate, stepCount, isDone, lastResult, plan, r, actIdx, attempt,
                   elapsed, iterations>>
    /\ UNCHANGED <<side, link, steps, finishBy, seen, resv, result, closeTried, closeFailed>>

\* await page.waitForTimeout(jitter(800)); lastHtml = await page.content()
Settle ==
    /\ pc = "exec"
    /\ actIdx > Len(plan.actions)
    /\ \/ /\ Go(GateEntry)
          /\ gate' = "mid"
          /\ UNCHANGED <<page, stepCount, isDone, lastResult, plan, r, actIdx,
                         attempt, elapsed, iterations, inflight>>
       \/ Throw(E_CLOSED)
    /\ UNCHANGED <<side, link, steps, finishBy, seen, resv, result, closeTried, closeFailed>>

\* the reclassification without its failure-phrase test
VerdictNoFailure(pl, p) ==
    IF pl.finish \/ hasSuccess(p) THEN "done" ELSE "continue"

\* the success / failure phrase heuristic and the two ifs that follow it
Verdict(pl, p) ==
    IF pl.finish \/ hasSuccess(p) THEN "done"
    ELSE IF hasFailure(p) /\ ~hasSuccess(p) THEN "failed"
    ELSE "continue"

\* observer: what the reclassification of this iteration read
ClassifyTags(pl, p, sc) ==
    (IF pl.finish \/ hasSuccess(p) THEN {"doneCondition"} ELSE {})
        \cup (IF hasSuccess(p) /\ hasFailure(p) THEN {"bothPhrases"} ELSE {})
        \cup (IF hasFailure(p) /\ ~hasSuccess(p) THEN {"failurePhrase"} ELSE {})
        \cup (IF /\ sc = 0
                 /\ ~pl.finish
                 /\ ~hasCaptcha(p)
                 /\ Includes(LowerBody(p), "you have been unsubscribed")
                 /\ ~hasFailure(p)
              THEN {"scenarioB"} ELSE {})

Reclassify ==
    /\ pc = "classify"
    /\ \/ /\ Throw(E_CLOSED)
          /\ UNCHANGED <<finishBy, seen>>
       \/ /\ Verdict(plan, page) = "done"
          /\ isDone' = TRUE
          /\ finishBy' = IF plan.finish THEN "AI plan" ELSE "success phrase"
          /\ Go("finalShot")
          /\ seen' = seen \cup ClassifyTags(plan, page, stepCount)
          /\ UNCHANGED <<page, gate, stepCount, lastResult, plan, r, actIdx,
                         attempt, elapsed, iterations, inflight>>
       \/ /\ Verdict(plan, page) = "failed"
          /\ Go("failShot")
          /\ seen' = seen \cup ClassifyTags(plan, page, stepCount)
          /\ UNCHANGED finishBy
          /\ UNCHANGED locals
       \/ /\ Verdict(plan, page) = "continue"
          /\ stepCount' = stepCount + 1
          /\ Go("loop")
          /\ seen' = seen \cup ClassifyTags(plan, page, stepCount)
          /\ UNCHANGED finishBy
          /\ UNCHANGED <<page, gate, isDone, lastResult, plan, r, actIdx,
                         attempt, elapsed, iterations, inflight>>
    /\ UNCHANGED <<side, link, steps, resv, result, closeTried, closeFailed>>

\* if (hasFailure && !hasSuccess) { screenshot; return {success: false, ...} }
FailurePhrase ==
    /\ pc = "failShot"
    /\ \/ Return(FailureResult(steps))
       \/ Throw(E_SHOT)
    /\ UNCHANGED <<side, link, steps, finishBy, seen, resv, result, closeTried, closeFailed>>

\* after the loop: screenshot; return {success: true, ...}
FinalReturn ==
    /\ pc = "finalShot"
    /\ \/ Return(FinalResult(steps))
       \/ Throw(E_SHOT)
    /\ UNCHANGED <<side, link, steps, finishBy, seen, resv, result, closeTried, closeFailed>>

\* -------------------- catch and finally --------------------

\* the catch block attaching a screenshot whatever the state of the run
CatchShotsAlways == {Image}

\* the best-effort screenshot of the catch block
CatchShots ==
    IF context # "null" /\ hasPage THEN {Image, Undefined} ELSE {Undefined}

\* the catch block with its screenshot unguarded: a rejected capture leaves
\* processUnsubscribe as an exception
CatchUnguardedShot ==
    /\ pc = "catch"
    /\ \/ \E shot \in CatchShots : Return(ErrorResult(err, steps, shot))
       \/ /\ pc' = "thrown"
          /\ Leave
          /\ UNCHANGED <<err, retval>>
    /\ UNCHANGED <<side, link, steps, finishBy, seen, resv, result, closeTried, closeFailed>>

\* catch (err) { screenshot (best effort); return {success: false, method: "ERROR", ...} }
Catch ==
    /\ pc = "catch"
    /\ \E shot \in CatchShots : Return(ErrorResult(err, steps, shot))
    /\ UNCHANGED <<side, link, steps, finishBy, seen, resv, result, closeTried, closeFailed>>

\* the finally block with one try around both close calls: a rejected
\* context.close() skips browser.close()
FinallyContextSkipsBrowser ==
    /\ pc = "finally"
    /\ IF context # "null"
       THEN /\ closeTried' = closeTried \cup {"context"}
            /\ \/ /\ context' = "closed"
                  /\ pc' = "finallyBrowser"
                  /\ UNCHANGED closeFailed
               \/ /\ closeFailed' = closeFailed \cup {"context"}
                  /\ pc' = "return"
                  /\ UNCHANGED context
       ELSE /\ pc' = "finallyBrowser"
            /\ UNCHANGED <<context, closeTried, closeFailed>>
    /\ UNCHANGED <<side, link, steps, finishBy, seen, browser, hasPage, locals, err,
                   retval, result>>

\* try { if (context) await context.close(); } catch { }
FinallyContext ==
    /\ pc = "finally"
    /\ IF context # "null"
       THEN /\ closeTried' = closeTried \cup {"context"}
            /\ \/ /\ context' = "closed"
                  /\ UNCHANGED closeFailed
               \/ /\ closeFailed' = closeFailed \cup {"context"}
                  /\ UNCHANGED context
       ELSE UNCHANGED <<context, closeTried, closeFailed>>
    /\ pc' = "finallyBrowser"
    /\ UNCHANGED <<side, link, steps, finishBy, seen, browser, hasPage, locals, err,
                   retval, result>>

\* try { if (browser) await browser.close(); } catch { }
\* (closing the browser closes the contexts it still holds)
FinallyBrowser ==
    /\ pc = "finallyBrowser"
    /\ IF browser # "null"
       THEN /\ closeTried' = closeTried \cup {"browser"}
            /\ \/ /\ browser' = "closed"
                  /\ context' = IF context = "open" THEN "closed" ELSE context
                  /\ UNCHANGED closeFailed
               \/ /\ closeFailed' = closeFailed \cup {"browser"}
                  /\ UNCHANGED <<browser, context>>
       ELSE UNCHANGED <<browser, context, closeTried, closeFailed>>
    /\ pc' = "return"
    /\ UNCHANGED <<side, link, steps, finishBy, seen, hasPage, locals, err, retval, result>>

\* the held value reaches the caller
ReturnToCaller ==
    /\ pc = "return"
    /\ result' = retval
    /\ pc' = "returned"
    /\ UNCHANGED <<side, link, steps, finishBy, seen, resv, locals, err, retval, closeTried,
                   closeFailed>>

Next ==
    \/ Start
    \/ Launch
    \/ NewContext
    \/ NewPage
    \/ Goto
    \/ ConsentGate
    \/ CaptchaCheck
    \/ CaptchaPoll
    \/ CaptchaReload
    \/ CaptchaExpire
    \/ CaptchaBlocked
    \/ LoopInit
    \/ LoopGuard
    \/ PlanAttempt
    \/ ExecAction
    \/ ClickSettles
    \/ Settle
    \/ Reclassify
    \/ FailurePhrase
    \/ FinalReturn
    \/ Catch
    \/ FinallyContext
    \/ FinallyBrowser
    \/ ReturnToCaller

Spec == Init /\ [][Next]_vars

\* -------------------- Logger and concurrent runs --------------------

\* the single run followed above stands still while the runs below are followed
run1 == <<link, pc, steps, finishBy, seen, resv, locals, outv>>
\* what stands still while the runs, the clock, the consent handler is followed
exceptRuns    == <<run1, clockv, consentv, waitv, batchv, planv, markupv>>
exceptClock   == <<run1, logv, consentv, waitv, batchv, planv, markupv>>
exceptConsent == <<run1, logv, clockv, waitv, batchv, planv, markupv>>
exceptWait    == <<run1, logv, clockv, consentv, batchv, planv, markupv>>
exceptBatch   == <<run1, logv, clockv, consentv, waitv, planv, markupv>>
exceptPlan    == <<run1, logv, clockv, consentv, waitv, batchv, markupv>>
exceptMarkup  == <<run1, logv, clockv, consentv, waitv, batchv, planv>>

\* the agent keeping one Logger for all its runs
AgentLogger(n) == 1

\* new Logger(runId): a fresh object for every run
NewLogger(n) == n

\* const steps: ActionStep[] = []: a fresh array for every run
NewSteps(n) == n

\* Logger.log: the entry gets the runId of the Logger it is pushed to; `by` is
\* the run whose code or whose page made the call (timestamp and context are
\* left out)
LogEntry(lg, level, message, n) ==
    [ runId |-> lg.runId, level |-> level, message |-> message, by |-> n ]

\* this.logs.push(entry)
Logged(ref, level, message, n) ==
    [loggers EXCEPT ![ref].logs = Append(@, LogEntry(loggers[ref], level, message, n))]

\* Logger.getEntries: the array itself
getEntries(ref) == ref

\* JSON.stringify of one entry
JSONStringify(e) ==
    "{\"level\":\"" \o e.level \o "\",\"message\":\"" \o e.message
        \o "\",\"runId\":\"" \o e.runId \o "\"}"

\* Logger.toJSONL: the lines of the export
toJSONL(lg) == [i \in DOMAIN lg.logs |-> JSONStringify(lg.logs[i])]

\* runId, log and steps are created and the first entry is logged
BeginRun(n) ==
    /\ rpc[n] = "idle"
    /\ \E id \in RunIdChoices(n) :
        /\ runIds' = [runIds EXCEPT ![n] = id]
        /\ logRef' = [logRef EXCEPT ![n] = NewLogger(n)]
        /\ loggers' = [loggers EXCEPT ![NewLogger(n)] =
               [ runId |-> id,
                 logs |-> << LogEntry([runId |-> id], "info", "Starting on link", n) >> ]]
    /\ stepsRef' = [stepsRef EXCEPT ![n] = NewSteps(n)]
    /\ stepArrays' = [stepArrays EXCEPT ![NewSteps(n)] = << >>]
    /\ rpc' = [rpc EXCEPT ![n] = "started"]
    /\ UNCHANGED <<exceptRuns, listening, results>>

\* the MAILTO short-circuit: no browser, no steps in the result
ReturnMailto(n) ==
    /\ rpc[n] = "started"
    /\ loggers' = Logged(logRef[n], "success", "MAILTO detected", n)
    /\ results' = [results EXCEPT ![n] =
           [ method |-> "MAILTO", runId |-> runIds[n],
             logs |-> getEntries(logRef[n]),
             jsonlLogs |-> toJSONL(loggers'[logRef[n]]),
             steps |-> 0 ]]
    /\ rpc' = [rpc EXCEPT ![n] = "returned"]
    /\ UNCHANGED <<exceptRuns, runIds, logRef, stepsRef, stepArrays, listening>>

\* the context is created and the page observers are registered on it
OpenContext(n) ==
    /\ rpc[n] = "started"
    /\ rpc' = [rpc EXCEPT ![n] = "running"]
    /\ listening' = [listening EXCEPT ![n] = TRUE]
    /\ UNCHANGED <<exceptRuns, runIds, logRef, stepsRef, loggers, stepArrays, results>>

\* what an observer logs: the console observer is followed; the response
\* observer makes the same log.log call with level "network"
PageEvents == {<<"debug", "browser console: log">>}

\* an observer that ends the run whose page it watches
PageEventAborts(n) ==
    /\ listening[n]
    /\ Len(loggers[logRef[n]].logs) < MaxEntries
    /\ \E ev \in PageEvents : loggers' = Logged(logRef[n], ev[1], ev[2], n)
    /\ rpc' = [rpc EXCEPT ![n] = "closeContext"]
    /\ UNCHANGED <<exceptRuns, runIds, logRef, stepsRef, stepArrays, listening,
                   results>>

\* a console message or an HTTP error response of the run's page: the observer
\* logs it on the Logger its closure captured
PageEvent(n) ==
    /\ listening[n]
    /\ Len(loggers[logRef[n]].logs) < MaxEntries
    /\ \E ev \in PageEvents : loggers' = Logged(logRef[n], ev[1], ev[2], n)
    /\ UNCHANGED <<exceptRuns, rpc, runIds, logRef, stepsRef, stepArrays, listening,
                   results>>

\* an action of the plan ran: its step is pushed and logged
PushStep(n) ==
    /\ rpc[n] = "running"
    /\ stepArrays[stepsRef[n]] = << >>
    /\ Len(loggers[logRef[n]].logs) < MaxEntries
    /\ stepArrays' = [stepArrays EXCEPT ![stepsRef[n]] =
           Append(@, [ action |-> "click", result |-> "success", by |-> n ])]
    /\ loggers' = Logged(logRef[n], "success", "Step success", n)
    /\ UNCHANGED <<exceptRuns, rpc, runIds, logRef, stepsRef, listening, results>>

\* a return statement of the try body evaluates its object literal (the one of
\* the catch block builds logs, jsonlLogs, steps and runId the same way); the
\* finally block runs next
ConstructResult(n) ==
    /\ rpc[n] = "running"
    /\ results' = [results EXCEPT ![n] =
           [ method |-> "AUTOMATED", runId |-> runIds[n],
             logs |-> getEntries(logRef[n]),
             jsonlLogs |-> toJSONL(loggers[logRef[n]]),
             steps |-> stepsRef[n] ]]
    /\ rpc' = [rpc EXCEPT ![n] = "closeContext"]
    /\ UNCHANGED <<exceptRuns, runIds, logRef, stepsRef, loggers, stepArrays, listening>>

\* await context.close() completed or rejected: the pages are gone
CloseContext(n) ==
    /\ rpc[n] = "closeContext"
    /\ rpc' = [rpc EXCEPT ![n] = "closeBrowser"]
    /\ listening' = [listening EXCEPT ![n] = FALSE]
    /\ UNCHANGED <<exceptRuns, runIds, logRef, stepsRef, loggers, stepArrays, results>>

\* await browser.close() completed or rejected: the caller gets the result
CloseBrowser(n) ==
    /\ rpc[n] = "closeBrowser"
    /\ rpc' = [rpc EXCEPT ![n] = "returned"]
    /\ UNCHANGED <<exceptRuns, runIds, logRef, stepsRef, loggers, stepArrays, listening,
                   results>>

NextRuns ==
    \/ \E n \in Runs : BeginRun(n)
    \/ \E n \in Runs : ReturnMailto(n)
    \/ \E n \in Runs : OpenContext(n)
    \/ \E n \in Runs : PageEvent(n)
    \/ \E n \in Runs : PushStep(n)
    \/ \E n \in Runs : ConstructResult(n)
    \/ \E n \in Runs : CloseContext(n)
    \/ \E n \in Runs : CloseBrowser(n)

\* the single run stands still at one of its initial states
InitRuns == Init /\ link = CHOOSE l \in Links : TRUE

SpecRuns == InitRuns /\ [][NextRuns]_vars

\* -------------------- Properties --------------------

\* the positions after control left the try body
AfterTry == {"catch", "finally", "finallyBrowser", "return", "returned"}

FailureDetails == "Failure phrase detected and no success confirmation."

\* C1: a MAILTO link never leaves the short-circuit: no browser, context or
\* page is opened, no iteration of the step loop (and so no oracle request) is
\* started, and the result is success=true, method="MAILTO",
\* details="Send email to <link.url>".
Thm_C1 ==
    link.method = "MAILTO" =>
        /\ pc \in {"start", "returned"}
        /\ browser = "null" /\ context = "null" /\ ~hasPage /\ page = "blank"
        /\ iterations = 0 /\ plan = NullPlan /\ steps = << >>
        /\ pc = "returned" =>
            /\ result.success = TRUE
            /\ result.method = "MAILTO"
            /\ result.details = "Send email to " \o link.url
            /\ link.url = "mailto:unsub@example.com" =>
                 result.details = "Send email to mailto:unsub@example.com"

Wit_C1 ==
    /\ pc = "returned"
    /\ link.method = "MAILTO"
    /\ result.details = "Send email to mailto:unsub@example.com"

Thm_C4 ==
    "planExhausted" \in seen =>
        /\ pc \in AfterTry
        /\ err = "Invalid AI plan JSON"
        /\ pc # "catch" =>
            /\ retval.success = FALSE
            /\ retval.method = "ERROR"
            /\ retval.error = "Invalid AI plan JSON"
            /\ retval.steps = steps
        /\ pc = "returned" => result = retval

Wit_C4 ==
    /\ pc = "returned"
    /\ "planExhausted" \in seen
    /\ result.error = "Invalid AI plan JSON"
    /\ Len(result.steps) = 1

\* C5 as stated: a challenge that persisted through the grace window ends the
\* run with success=false, captchaBlocked=true and a screenshot, not through
\* the exception path.
Claim_C5 ==
    ("persisted" \in seen /\ pc = "returned") =>
        /\ result.success = FALSE
        /\ result.captchaBlocked
        /\ result.screenshot = Image
        /\ result.method # "ERROR"

\* C6 as stated: a success phrase without failure phrase and without finish
\* after the first iteration ends the run with success=true, Done attributed
\* to the phrase.
Claim_C6 ==
    ("scenarioB" \in seen /\ pc = "returned") =>
        /\ result.success = TRUE
        /\ finishBy = "success phrase"

\* C7 as stated: finish or a success phrase at reclassification gives Done and
\* success=true; with both phrases success wins and the run is not reported
\* Failed; with neither phrase and no finish the loop continues.
Claim_C7 ==
    /\ ("doneCondition" \in seen /\ pc = "returned") => result.success = TRUE
    /\ ("bothPhrases" \in seen /\ pc = "returned") => result.details # FailureDetails
    /\ (pc = "loop" /\ stepCount > 0) =>
            seen \cap {"doneCondition", "failurePhrase"} = {}

Claim_C9 ==
    ("exhausted" \in seen /\ pc = "returned") =>
        ~(result.success = TRUE /\ result.details = "Unsubscribe completed")

\* C10 as stated: once a browser was launched, context and browser are both
\* released, and a screenshot was captured, when the result reaches the caller.
Claim_C10 ==
    (pc = "returned" /\ browser # "null") =>
        /\ browser = "closed"
        /\ context # "open"
        /\ result.screenshot = Image

\* C10 amended: before the result reaches the caller the finally block has
\* called close() on the context, when one was created, and on the browser,
\* when one was launched, whatever the exit path and whether or not the
\* context's close rejected; the browser is released unless its close
\* rejected, the context unless both rejected; and the returned value, with
\* the screenshot it may carry, is fixed before the first close.
Thm_C10 ==
    /\ (pc \in {"return", "returned"} /\ browser # "null") =>
        /\ "browser" \in closeTried
        /\ browser = "closed" \/ "browser" \in closeFailed
    /\ (pc \in {"return", "returned"} /\ context # "null") =>
        /\ "context" \in closeTried
        /\ context = "closed" \/ closeFailed = {"context", "browser"}
    /\ closeTried # {} =>
        /\ pc \in {"finallyBrowser", "return", "returned"}
        /\ retval # NoResult
        /\ result \in {NoResult, retval}
    /\ (result # NoResult /\ result.method # "MAILTO") => pc = "returned"

Wit_C10 ==
    /\ pc = "returned"
    /\ result.method = "ERROR"
    /\ closeFailed = {"context"}
    /\ browser = "closed"
    /\ context = "closed"

\* C11: once page.goto has rejected, the run is in the catch block or past
\* it: the consent handler, the challenge monitor and the oracle have not been
\* and are not invoked, no step exists, and the result is success=false,
\* method="ERROR" with the message of the navigation error.
Thm_C11 ==
    "navFailed" \in seen =>
        /\ pc \in AfterTry
        /\ seen \cap {"consentHandler", "challengeMonitor", "oracle"} = {}
        /\ steps = << >>
        /\ err = E_NAV
        /\ pc = "returned" =>
            /\ result.success = FALSE
            /\ result.method = "ERROR"
            /\ result.error = E_NAV
            /\ result.hasSteps /\ result.steps = << >>

Wit_C11 ==
    /\ pc = "returned"
    /\ "navFailed" \in seen
    /\ result.error = E_NAV
    /\ result.screenshot = Image
    /\ browser = "closed"

\* the action the loop is about to execute, if any
Pending == pc = "exec" /\ actIdx <= Len(plan.actions)

\* the outcomes of executing the pending action whose first attempt failed
\* with an overlay-like error
OverlayOutcomes ==
    { o \in performActionWithCookieRetry(plan.actions[actIdx]) :
        o.trail.first # "ok" /\ looksOverlay(o.trail.first) }

Claim_C13 ==
    \A i \in DOMAIN steps :
        (steps[i].result = "success") # (steps[i].error # Undefined)

\* C14 as stated: an action of unknown kind leaves a step with an error and
\* without result="success", and nothing on the page was operated for it.
Claim_C14 ==
    /\ \A i \in DOMAIN steps :
            steps[i].action \notin KnownActions =>
                (steps[i].error # Undefined /\ steps[i].result # "success")
    /\ "unknownTouched" \notin seen

\* the steps appended so far in the iteration in progress are those of the
\* plan's actions already executed, one each, in the plan's order
StepsFollowPlan ==
    pc = "exec" =>
        /\ Len(steps) >= actIdx - 1
        /\ \A k \in 1..(actIdx - 1) :
            LET st == steps[Len(steps) - (actIdx - 1) + k] IN
            /\ st.action = plan.actions[k].action
            /\ st.selector = plan.actions[k].selector

\* C15 as stated: one step per executed plan action in the plan's order, each
\* appended only after its action finished, and no action starts while
\* another is still executing.
Claim_C15 ==
    /\ StepsFollowPlan
    /\ "stepBeforeFinish" \notin seen
    /\ "overlap" \notin seen

\* C16 as stated: every terminal result, the MAILTO short-circuit included,
\* carries the step history, the log history, the JSONL export and the run
\* identifier.
Claim_C16 ==
    pc = "returned" =>
        /\ {"steps", "logs", "jsonlLogs", "runId"} \subseteq result.keys
        /\ result.hasSteps

\* C17 as stated: every terminal result other than the MAILTO short-circuit
\* carries a full-page screenshot, results of the exception path included.
Claim_C17 ==
    (pc = "returned" /\ result.method # "MAILTO") => result.screenshot = Image

\* C17 amended: every result made by a return statement of the try body
\* (Done, budget exhaustion, captchaBlocked, failure phrase) carries a
\* full-page screenshot; the MAILTO result carries none; a result of the
\* exception path carries one only if a page had been opened in a context
\* and the best-effort capture succeeded, so none after a failure of the
\* browser launch or of the creation of the context or of the page.
Thm_C17 ==
    pc = "returned" =>
        /\ result.method = "AUTOMATED" => result.screenshot = Image
        /\ result.method = "MAILTO" => result.screenshot = Undefined
        /\ result.method = "ERROR" =>
            /\ result.screenshot \in {Image, Undefined}
            /\ result.screenshot = Image => (hasPage /\ context # "null")
            /\ result.error = E_LAUNCH => result.screenshot = Undefined

Wit_C17 ==
    /\ pc = "returned"
    /\ result.method = "ERROR"
    /\ result.error = E_LAUNCH
    /\ result.screenshot = Undefined
    /\ browser = "null"

\* -------------------- Step timing --------------------

\* Times are counted in ms after the instant 2023-11-14T22:13:20.000Z.

Digit(d) == CASE d = 0 -> "0" [] d = 1 -> "1" [] d = 2 -> "2" [] d = 3 -> "3"
              [] d = 4 -> "4" [] d = 5 -> "5" [] d = 6 -> "6" [] d = 7 -> "7"
              [] d = 8 -> "8" [] d = 9 -> "9"

\* new Date().toISOString() at clock value t (fewer than 1000 ms after that
\* instant): the instant to the millisecond
toISOString(t) ==
    "2023-11-14T22:13:20." \o Digit(t \div 100) \o Digit((t \div 10) % 10)
        \o Digit(t % 10) \o "Z"

\* Date.parse of such a string
DateParse(str) == CHOOSE t \in 0..999 : toISOString(t) = str

\* Date.now()
DateNow == now

\* the system clock advances by a millisecond, at any point of the loop
Tick ==
    /\ now < MaxClock
    /\ now' = now + 1
    /\ UNCHANGED <<exceptClock, tpc, step, t0, timed>>

\* the system clock is set back by a millisecond (clock synchronisation) while
\* the action is awaited
ClockSetBack ==
    /\ tpc = "perform"
    /\ now > 0
    /\ now' = now - 1
    /\ UNCHANGED <<exceptClock, tpc, step, t0, timed>>

\* const step = {...act, startedAt: new Date().toISOString()}
StampStartedAt ==
    /\ tpc = "startedAt"
    /\ Len(timed) < MaxTimedSteps
    /\ step' = [NoStep EXCEPT !.startedAt = toISOString(now)]
    /\ tpc' = "t0"
    /\ UNCHANGED <<exceptClock, now, t0, timed>>

\* const t0 = Date.now()
ReadT0 ==
    /\ tpc = "t0"
    /\ t0' = DateNow
    /\ tpc' = "perform"
    /\ UNCHANGED <<exceptClock, now, step, timed>>

\* await performActionWithCookieRetry(act) returned or threw
Performed ==
    /\ tpc = "perform"
    /\ tpc' = "finishedAt"
    /\ UNCHANGED <<exceptClock, now, step, t0, timed>>

\* step.finishedAt = new Date().toISOString()
StampFinishedAt ==
    /\ tpc = "finishedAt"
    /\ step' = [step EXCEPT !.finishedAt = toISOString(now)]
    /\ tpc' = "durationMs"
    /\ UNCHANGED <<exceptClock, now, t0, timed>>

\* step.durationMs = Date.now() - t0; steps.push(step)
StampDuration ==
    /\ tpc = "durationMs"
    /\ timed' = Append(timed, [step EXCEPT !.durationMs = DateNow - t0])
    /\ step' = NoStep
    /\ tpc' = "startedAt"
    /\ UNCHANGED <<exceptClock, now, t0>>

NextClock ==
    \/ Tick
    \/ ClockSetBack
    \/ StampStartedAt
    \/ ReadT0
    \/ Performed
    \/ StampFinishedAt
    \/ StampDuration

\* the single run stands still at one of its initial states
InitClock == Init /\ link = CHOOSE l \in Links : TRUE

SpecClock == InitClock /\ [][NextClock]_vars

\* -------------------- Consent handler: acceptCookieBanners --------------------

\* The elements a frame may show:
\*   onetrustAccept     <button id="onetrust-accept-btn-handler">Accept All</button>
\*   cookieBar          <div class="cookie-bar">We use cookies</div>
\*   continueButton     <button>Continue</button>
\*   unsubscribeButton  <button>Unsubscribe</button>
Elements == {"onetrustAccept", "cookieBar", "continueButton", "unsubscribeButton"}

\* the elements ACCEPT_SELECTORS.join(", ") matches
AcceptSelectorMatches == {"onetrustAccept"}

\* the buttons whose accessible name GENERIC_BUTTON_TEXT matches
GenericButtonMatches == {"onetrustAccept", "continueButton"}

\* the elements the markers of frameHasCookieUi match
CookieMarkers == {"onetrustAccept", "cookieBar"}

\* the frames a page is made of
FrameContents ==
    { {}, {"unsubscribeButton"}, {"continueButton"}, {"cookieBar"},
      {"cookieBar", "onetrustAccept"} }

POLL_MS == 200
SETTLE_MS == 250

\* frameHasCookieUi(frame)
frameHasCookieUi(fr) == fr \cap CookieMarkers # {}

\* the button a frame visit clicks: known.first() when visible, else
\* generic.first() when visible, else none
ClickTarget(fr) ==
    IF fr \cap AcceptSelectorMatches # {}
        THEN CHOOSE e \in fr \cap AcceptSelectorMatches : TRUE
    ELSE IF fr \cap GenericButtonMatches # {}
        THEN CHOOSE e \in fr \cap GenericButtonMatches : TRUE
    ELSE "none"

\* what a frame may show after a click on e completed: the same, or the clicked
\* button and the consent UI gone
AfterClick(fr, e) == {fr, fr \ (CookieMarkers \cup {e})}

\* acceptCookieBanners(page, log, {timeoutMs}) is called
CallConsent ==
    /\ apc = "idle"
    /\ \E pg \in [Frames -> FrameContents] :
        /\ frames' = pg
        /\ page0' = pg
    /\ \E k \in 1..MaxPolls : timeoutMs' = k * POLL_MS
    /\ apc' = "while"
    /\ UNCHANGED <<exceptConsent, spent, fi, clickedAny, didClickThisRound, aret,
                   okClicks, badClicks>>

\* while (Date.now() - start < timeoutMs): a round starts
RoundStart ==
    /\ apc = "while"
    /\ spent < timeoutMs
    /\ didClickThisRound' = FALSE
    /\ fi' = 1
    /\ apc' = "frame"
    /\ UNCHANGED <<exceptConsent, frames, page0, timeoutMs, spent, clickedAny, aret,
                   okClicks, badClicks>>

\* the budget has elapsed: return clickedAny
BudgetElapsed ==
    /\ apc = "while"
    /\ spent >= timeoutMs
    /\ aret' = IF clickedAny THEN "true" ELSE "false"
    /\ apc' = "done"
    /\ UNCHANGED <<exceptConsent, frames, page0, timeoutMs, spent, fi, clickedAny,
                   didClickThisRound, okClicks, badClicks>>

\* the body of the for loop for one frame: the click on a known or a generic
\* button, which completes or throws into the frame's catch, and after a
\* completed click of this round the settle waits
VisitFrame ==
    /\ apc = "frame"
    /\ fi <= MaxFrames
    /\ LET e == ClickTarget(frames[fi]) IN
        \/ /\ e = "none"
           /\ clickedAny' = (clickedAny \/ didClickThisRound)
           /\ spent' = IF didClickThisRound
                            THEN spent + jitter(SETTLE_MS, MIN_JITTER_MS) ELSE spent
           /\ UNCHANGED <<frames, didClickThisRound, okClicks, badClicks>>
        \/ /\ e # "none"
           /\ \E fr \in AfterClick(frames[fi], e) :
                  frames' = [frames EXCEPT ![fi] = fr]
           /\ okClicks' = okClicks \cup {<<fi, e>>}
           /\ didClickThisRound' = TRUE
           /\ clickedAny' = TRUE
           /\ spent' = spent + jitter(SETTLE_MS, MIN_JITTER_MS)
           /\ UNCHANGED badClicks
        \/ /\ e # "none"
           /\ badClicks' = badClicks \cup {<<fi, e>>}
           /\ spent' = spent + ACTION_TIMEOUT
           /\ UNCHANGED <<frames, didClickThisRound, clickedAny, okClicks>>
    /\ fi' = fi + 1
    /\ UNCHANGED <<exceptConsent, page0, apc, timeoutMs, aret>>

\* after the for loop: without a click in this round and without consent UI in
\* any frame the call waits 200 ms and returns clickedAny; without a click but
\* with consent UI it waits 200 ms and polls again; after a click it polls
\* again at once.  Either wait is outside every try block and may reject.
RoundEnd ==
    /\ apc = "frame"
    /\ fi > MaxFrames
    /\ \/ /\ ~didClickThisRound
          /\ \A f \in Frames : ~frameHasCookieUi(frames[f])
          /\ \/ /\ aret' = IF clickedAny THEN "true" ELSE "false"
                /\ spent' = spent + POLL_MS
             \/ /\ aret' = "threw"
                /\ UNCHANGED spent
          /\ apc' = "done"
       \/ /\ ~didClickThisRound
          /\ \E f \in Frames : frameHasCookieUi(frames[f])
          /\ \/ /\ apc' = "while"
                /\ spent' = spent + POLL_MS
                /\ UNCHANGED aret
             \/ /\ apc' = "done"
                /\ aret' = "threw"
                /\ UNCHANGED spent
       \/ /\ didClickThisRound
          /\ apc' = "while"
          /\ UNCHANGED <<spent, aret>>
    /\ UNCHANGED <<exceptConsent, frames, page0, timeoutMs, fi, clickedAny,
                   didClickThisRound, okClicks, badClicks>>

NextConsent ==
    \/ CallConsent
    \/ RoundStart
    \/ BudgetElapsed
    \/ VisitFrame
    \/ RoundEnd

\* the single run stands still at one of its initial states
InitConsent == Init /\ link = CHOOSE l \in Links : TRUE

SpecConsent == InitConsent /\ [][NextConsent]_vars

\* -------------------- Challenge wait: waitOutCaptchaIfPresent --------------------

\* a detection whose answer depends on the attempt it is made in
DetectOnEvenAttempts(p) == hasCaptcha(p) /\ wattempt % 2 = 0

\* await hasCaptcha(page, log): the boolean a call that returns gives
Detect(p) == hasCaptcha(p)

\* the grace window closing after three attempts
GraceLeftThreeAttempts == wattempt < 3

\* a reload on every second attempt
ReloadDueEverySecond == wattempt % 2 = 0

\* if (attempt % 3 === 0)
ReloadDue == wattempt % 3 = 0

\* Date.now() - start < CAPTCHA_MAX_GRACE_MS
GraceLeft == waited < CAPTCHA_MAX_GRACE_MS

\* a call of hasCaptcha returned res: it read the page and changed nothing
Detected(res) ==
    /\ UNCHANGED wpage
    /\ nChecks' = nChecks + 1
    /\ nNegative' = IF res THEN nNegative ELSE nNegative + 1
    /\ detections' = detections
           \cup {[page |-> wpage, after |-> wpage', result |-> res]}

\* waitOutCaptchaIfPresent(page, log) is called
CallWait ==
    /\ wpc = "idle"
    /\ wpage' \in Pages
    /\ wpc' = "check"
    /\ UNCHANGED <<exceptWait, reloadErrors, wattempt, waited, wret, inputs, sleeps, reloads,
                   nChecks, nNegative, detections>>

\* if (!(await hasCaptcha(page, log))) return true;  const start = Date.now()
InitialCheck ==
    /\ wpc = "check"
    /\ \/ /\ Detected(Detect(wpage))
          /\ IF Detect(wpage)
             THEN wpc' = "while" /\ UNCHANGED wret
             ELSE wpc' = "done" /\ wret' = "true"
       \/ /\ wpc' = "done"
          /\ wret' = "threw"
          /\ UNCHANGED <<wpage, nChecks, nNegative, detections>>
    /\ UNCHANGED <<exceptWait, reloadErrors, wattempt, waited, inputs, sleeps, reloads>>

\* while (Date.now() - start < CAPTCHA_MAX_GRACE_MS) { attempt++; ...
WaitRound ==
    /\ wpc = "while"
    /\ GraceLeft
    /\ wattempt' = wattempt + 1
    /\ wpc' = "input"
    /\ UNCHANGED <<exceptWait, reloadErrors, wpage, waited, wret, inputs, sleeps, reloads,
                   nChecks, nNegative, detections>>

\* the guard fails: "CAPTCHA persisted after grace window."; return false
WaitExpired ==
    /\ wpc = "while"
    /\ ~GraceLeft
    /\ wret' = "false"
    /\ wpc' = "done"
    /\ UNCHANGED <<exceptWait, reloadErrors, wpage, wattempt, waited, inputs, sleeps, reloads,
                   nChecks, nNegative, detections>>

\* the simulated input (mouse move, Shift with sleep(30), wheel) inside its
\* try block: it completes, or fails before the sleep and is ignored
SimulateInput ==
    /\ wpc = "input"
    /\ inputs' = inputs + 1
    /\ \/ waited' = waited + INPUT_SLEEP_MS
       \/ UNCHANGED waited
    /\ wpc' = "sleep"
    /\ UNCHANGED <<exceptWait, reloadErrors, wpage, wattempt, wret, sleeps, reloads, nChecks,
                   nNegative, detections>>

\* await sleep(jitter(CAPTCHA_RECHECK_INTERVAL_MS)), during which the page may
\* become another one
RecheckSleep ==
    /\ wpc = "sleep"
    /\ \E extra \in {MIN_JITTER_MS, MAX_JITTER_MS} :
           waited' = waited + jitter(CAPTCHA_RECHECK_INTERVAL_MS, extra)
    /\ sleeps' = sleeps + 1
    /\ wpage' \in Pages
    /\ wpc' = "recheck"
    /\ UNCHANGED <<exceptWait, reloadErrors, wattempt, wret, inputs, reloads, nChecks, nNegative,
                   detections>>

\* if (!(await hasCaptcha(page, log))) return true; then the reload test
Recheck ==
    /\ wpc = "recheck"
    /\ \/ /\ Detected(Detect(wpage))
          /\ IF Detect(wpage)
             THEN /\ wpc' = IF ReloadDue THEN "reload" ELSE "while"
                  /\ UNCHANGED wret
             ELSE wpc' = "done" /\ wret' = "true"
       \/ /\ wpc' = "done"
          /\ wret' = "threw"
          /\ UNCHANGED <<wpage, nChecks, nNegative, detections>>
    /\ UNCHANGED <<exceptWait, reloadErrors, wattempt, waited, inputs, sleeps, reloads>>

\* try { await page.reload(...) } catch { log }: the reload loads some page,
\* or fails and is logged
Reload ==
    /\ wpc = "reload"
    /\ \/ /\ wpage' \in Pages
          /\ UNCHANGED reloadErrors
       \/ /\ UNCHANGED wpage
          /\ reloadErrors' = reloadErrors \cup {wattempt}
    /\ reloads' = reloads \cup {wattempt}
    /\ wpc' = "while"
    /\ UNCHANGED <<exceptWait, wattempt, waited, wret, inputs, sleeps, nChecks,
                   nNegative, detections>>

NextWait ==
    \/ CallWait
    \/ InitialCheck
    \/ WaitRound
    \/ WaitExpired
    \/ SimulateInput
    \/ RecheckSleep
    \/ Recheck
    \/ Reload

\* the single run stands still at one of its initial states
InitWait == Init /\ link = CHOOSE l \in Links : TRUE

SpecWait == InitWait /\ [][NextWait]_vars

\* -------------------- Batch driver: unsubscribeFromHtml --------------------

\* JSON null, which has no url and no method to read
Null == [ isNull |-> TRUE ]

\* the elements an array parsed from the oracle's answer may hold: link
\* objects, or any other JSON value
ExtractedValues == Links \cup {Null}

\* the arrays extractUnsubscribeLinks may return
ExtractedLists ==
    UNION {[1..n -> ExtractedValues] : n \in 0..MaxLinks}

\* { success, results, summary }
BatchResult(res, count, n) ==
    [ status |-> "returned", success |-> count > 0, results |-> res,
      processed |-> n, successes |-> count ]

\* const links = await this.extractUnsubscribeLinks(html)
ExtractLinks ==
    /\ bpc = "idle"
    /\ blinks' \in ExtractedLists
    /\ bpc' = "for"
    /\ UNCHANGED <<exceptBatch, bi, bresults, successCount, bret, active,
                   openBrowsers, maxActive>>

\* for (const link of links) { await this.processUnsubscribe(link) ...: the run
\* of the next link starts.  Its first statements read link.url and
\* link.method outside the try block: on null they throw, the promise of the
\* run rejects and so does the batch.
StartRun ==
    /\ bpc = "for"
    /\ bi <= Len(blinks)
    /\ IF blinks[bi] = Null
       THEN /\ bpc' = "done"
            /\ bret' = [ status |-> "rejected" ]
            /\ UNCHANGED <<active, openBrowsers, maxActive>>
       ELSE /\ bpc' = "await"
            /\ active' = active \cup {bi}
            /\ maxActive' = IF Cardinality(active') > maxActive
                                THEN Cardinality(active') ELSE maxActive
            /\ openBrowsers' = IF blinks[bi].method = "MAILTO"
                                   THEN openBrowsers ELSE openBrowsers \cup {bi}
            /\ UNCHANGED bret
    /\ UNCHANGED <<exceptBatch, blinks, bi, bresults, successCount>>

\* the run returned its result after its finally block: browser.close()
\* completed, or rejected and was swallowed; results.push({link, result});
\* if (result.success) successCount++
RunReturned ==
    /\ bpc = "await"
    /\ active' = active \ {bi}
    /\ \/ openBrowsers' = openBrowsers \ {bi}
       \/ /\ bi \in openBrowsers
          /\ UNCHANGED openBrowsers
    /\ \E ok \in BOOLEAN :
        /\ bresults' = Append(bresults, [link |-> blinks[bi], success |-> ok])
        /\ successCount' = IF ok THEN successCount + 1 ELSE successCount
    /\ bi' = bi + 1
    /\ bpc' = "for"
    /\ UNCHANGED <<exceptBatch, blinks, bret, maxActive>>

\* return { success: successCount > 0, results, summary }
BatchReturn ==
    /\ bpc = "for"
    /\ bi > Len(blinks)
    /\ bret' = BatchResult(bresults, successCount, Len(blinks))
    /\ bpc' = "done"
    /\ UNCHANGED <<exceptBatch, blinks, bi, bresults, successCount, active,
                   openBrowsers, maxActive>>

NextBatch ==
    \/ ExtractLinks
    \/ StartRun
    \/ RunReturned
    \/ BatchReturn

\* the single run stands still at one of its initial states
InitBatch == Init /\ link = CHOOSE l \in Links : TRUE

SpecBatch == InitBatch /\ [][NextBatch]_vars

\* -------------------- Plan parse: JSON.parse and the use of its value --------------------

\* well-formed JSON texts that are not of the shape the prompt asks for
R_NULL       == "null"
R_NUMBER     == "42"
R_NOACTIONS  == "{\"steps\":[]}"
R_FINISHONLY == "{\"finish\":true}"
R_ACTIONSNUM == "{\"actions\":5,\"finish\":false}"

\* the texts generateText may return, of any shape
OracleTexts ==
    Responses \cup {R_NULL, R_NUMBER, R_NOACTIONS, R_FINISHONLY, R_ACTIONSNUM}

SyntaxError ==
    [ok |-> FALSE, kind |-> "none", actionsKind |-> "absent", actions |-> << >>,
     finishKind |-> "absent", finish |-> FALSE]

ObjectValue(ak, acts, fk, fin) ==
    [ok |-> TRUE, kind |-> "object", actionsKind |-> ak, actions |-> acts,
     finishKind |-> fk, finish |-> fin]

\* JSON.parse(text) as a value: null, a number, or an object with the
\* properties the text gives it; a SyntaxError for text that is not JSON
JSONValue(text) ==
    CASE text = R_NULL       -> NullValue
      [] text = R_NUMBER     -> [NullValue EXCEPT !.kind = "number"]
      [] text = R_NOACTIONS  -> ObjectValue("absent", << >>, "absent", FALSE)
      [] text = R_FINISHONLY -> ObjectValue("absent", << >>, "boolean", TRUE)
      [] text = R_ACTIONSNUM -> ObjectValue("number", << >>, "boolean", FALSE)
      [] OTHER ->
            IF JSONParse(text).ok
            THEN ObjectValue("list", JSONParse(text).actions, "boolean",
                             JSONParse(text).finish)
            ELSE SyntaxError

\* the shape the prompt asks for and the declared type of plan names:
\* { actions: [...], finish: boolean }
MatchesPlan(v) ==
    /\ v.ok
    /\ v.kind = "object"
    /\ v.actionsKind = "list"
    /\ v.finishKind = "boolean"

E_ITER == "plan?.actions is not iterable"

\* for (const act of plan?.actions || []): whether the value can be iterated
Iterable(v) == ~(v.kind = "object" /\ v.actionsKind = "number")

\* plan?.actions || []
planActions(v) ==
    IF v.kind = "object" /\ v.actionsKind = "list" THEN v.actions ELSE << >>

\* plan?.finish, as the condition of an if
planFinish(v) == v.kind = "object" /\ v.finishKind = "boolean" /\ v.finish

\* an iteration of the while loop reaches the parse loop
CallPlan ==
    /\ ppc = "idle"
    /\ ppc' = "try"
    /\ pr' = 0
    /\ pvalue' = NullValue
    /\ UNCHANGED <<exceptPlan, ptexts, pacts, pfinish, pret, asked, backoffs>>

\* the catch clause sleeping after the last attempt as well
PlanCatchSleepsLast ==
    /\ backoffs' = backoffs + 1
    /\ IF pr < PLAN_PARSE_RETRIES
       THEN /\ pr' = pr + 1
            /\ UNCHANGED <<ppc, pret>>
       ELSE /\ ppc' = "done"
            /\ pret' = E_PLAN
            /\ UNCHANGED pr

\* the catch clause of the parse loop: warn and sleep(jitter(400)) before the
\* next attempt, or throw "Invalid AI plan JSON" after the last one
PlanCatch ==
    IF pr < PLAN_PARSE_RETRIES
    THEN /\ pr' = pr + 1
         /\ backoffs' = backoffs + 1
         /\ UNCHANGED <<ppc, pret>>
    ELSE /\ ppc' = "done"
         /\ pret' = E_PLAN
         /\ UNCHANGED <<pr, backoffs>>

\* one attempt of for (let r = 0; r <= PLAN_PARSE_RETRIES; r++): generateText
\* rejects, or its text is handed to JSON.parse, whose value, whatever it is,
\* is assigned to plan before the break
PlanTry ==
    /\ ppc = "try"
    /\ asked' = asked + 1
    /\ \/ \E text \in OracleTexts :
            /\ ptexts' = Append(ptexts, text)
            /\ IF JSONValue(text).ok
               THEN /\ pvalue' = JSONValue(text)
                    /\ ppc' = "use"
                    /\ UNCHANGED <<pr, pret, backoffs>>
               ELSE /\ PlanCatch
                    /\ UNCHANGED pvalue
       \/ /\ PlanCatch
          /\ UNCHANGED <<ptexts, pvalue>>
    /\ UNCHANGED <<exceptPlan, pacts, pfinish>>

\* the plan is used: the for-of loop over plan?.actions || [] and the test of
\* plan?.finish
PlanUse ==
    /\ ppc = "use"
    /\ ppc' = "done"
    /\ IF Iterable(pvalue)
       THEN /\ pacts' = planActions(pvalue)
            /\ pfinish' = planFinish(pvalue)
            /\ pret' = "plan"
       ELSE /\ pret' = E_ITER
            /\ UNCHANGED <<pacts, pfinish>>
    /\ UNCHANGED <<exceptPlan, pr, ptexts, pvalue, asked, backoffs>>

NextPlan ==
    \/ CallPlan
    \/ PlanTry
    \/ PlanUse

\* the single run stands still at one of its initial states
InitPlan == Init /\ link = CHOOSE l \in Links : TRUE

SpecPlan == InitPlan /\ [][NextPlan]_vars

\* -------------------- Plan prompt markup: lastHtml --------------------

\* the initial gates have passed on some page
CallMarkup ==
    /\ mpc = "idle"
    /\ mpage' \in Pages
    /\ mpc' = "content"
    /\ UNCHANGED <<exceptMarkup, lastHtml, embedded, since, mstep>>

\* let lastHtml = await page.content(), before the loop
InitialCapture ==
    /\ mpc = "content"
    /\ lastHtml' = mpage
    /\ since' = {}
    /\ mpc' = "loop"
    /\ UNCHANGED <<exceptMarkup, mpage, embedded, mstep>>

\* while (stepCount < MAX_STEPS && !isDone): planPrompt embeds ${lastHtml} and
\* is sent with generateText
RequestPlan ==
    /\ mpc = "loop"
    /\ mstep < MAX_STEPS
    /\ embedded' = lastHtml
    /\ mpc' = "exec"
    /\ UNCHANGED <<exceptMarkup, mpage, lastHtml, since, mstep>>

\* the loop condition fails
MarkupLoopExit ==
    /\ mpc = "loop"
    /\ mstep >= MAX_STEPS
    /\ mpc' = "done"
    /\ UNCHANGED <<exceptMarkup, mpage, lastHtml, embedded, since, mstep>>

\* the actions of the plan are performed; the page may become another one
PerformPlan ==
    /\ mpc = "exec"
    /\ mpage' \in Pages
    /\ since' = since \cup {"action"}
    /\ mpc' = "capture"
    /\ UNCHANGED <<exceptMarkup, lastHtml, embedded, mstep>>

\* await page.waitForTimeout(jitter(800)); lastHtml = await page.content()
MidCapture ==
    /\ mpc = "capture"
    /\ lastHtml' = mpage
    /\ since' = {}
    /\ mpc' = "consent"
    /\ UNCHANGED <<exceptMarkup, mpage, embedded, mstep>>

\* const cookieAcceptedAgain = await acceptCookieBanners(...): no click, or a
\* click after which the page may be another one, or a rejection
MidConsent ==
    /\ mpc = "consent"
    /\ \E o \in acceptCookieBanners(mpage) :
         \/ /\ o.threw
            /\ mpc' = "done"
            /\ UNCHANGED <<mpage, since>>
         \/ /\ ~o.threw
            /\ mpage' = o.page
            /\ since' = IF o.clicked THEN since \cup {"consentClick"} ELSE since
            /\ mpc' = "challenge"
    /\ UNCHANGED <<exceptMarkup, lastHtml, embedded, mstep>>

\* const clearedAgain = await waitOutCaptchaIfPresent(page, log): true at once
\* when no challenge shows; otherwise rounds of simulated input, with a reload
\* on every third, until the challenge is gone or the grace window is over
MidChallenge ==
    /\ mpc = "challenge"
    /\ \/ /\ ~hasCaptcha(mpage)
          /\ mpc' = "classify"
          /\ UNCHANGED <<mpage, since>>
       \/ /\ hasCaptcha(mpage)
          /\ \E ops \in {{"simulatedInput"}, {"simulatedInput", "reload"}},
                p2 \in Pages :
               /\ since' = since \cup ops
               /\ mpage' = p2
               /\ mpc' = IF hasCaptcha(p2) THEN "done" ELSE "classify"
    /\ UNCHANGED <<exceptMarkup, lastHtml, embedded, mstep>>

\* finish or a success phrase, or a failure phrase, ends the loop; otherwise
\* stepCount++
MarkupClassify ==
    /\ mpc = "classify"
    /\ \/ /\ mpc' = "done"
          /\ UNCHANGED mstep
       \/ /\ ~hasSuccess(mpage)
          /\ ~(hasFailure(mpage) /\ ~hasSuccess(mpage))
          /\ mstep' = mstep + 1
          /\ mpc' = "loop"
    /\ UNCHANGED <<exceptMarkup, mpage, lastHtml, embedded, since>>

NextMarkup ==
    \/ CallMarkup
    \/ InitialCapture
    \/ RequestPlan
    \/ MarkupLoopExit
    \/ PerformPlan
    \/ MidCapture
    \/ MidConsent
    \/ MidChallenge
    \/ MarkupClassify

\* the single run stands still at one of its initial states
InitMarkup == Init /\ link = CHOOSE l \in Links : TRUE

SpecMarkup == InitMarkup /\ [][NextMarkup]_vars

\* the entries of the logs array a result refers to
LogsOf(res) == loggers[res.logs].logs

\* the entries of the steps array a result refers to (MAILTO results have none)
StepsOf(res) == IF res.steps = 0 THEN << >> ELSE stepArrays[res.steps]

\* C18 as stated: once a run's result object has been constructed, the steps
\* and the logs it holds never change again, whatever the page observers log
\* while the context and the browser are being closed.
Claim_C18 ==
    [][\A n \in Runs :
          results[n] # NoRunResult =>
              /\ results'[n] = results[n]
              /\ LogsOf(results[n])' = LogsOf(results[n])
              /\ StepsOf(results[n])' = StepsOf(results[n])]_vars

\* C19: every log entry of a run's result carries the runId of that result,
\* and every log entry and every step of a run's result was produced by that
\* run, for runs made one after another and for runs interleaved at their
\* suspension points on the one agent.
Thm_C19 ==
    \A n \in Runs :
        results[n] # NoRunResult =>
            /\ results[n].runId = runIds[n]
            /\ \A i \in DOMAIN LogsOf(results[n]) :
                   /\ LogsOf(results[n])[i].runId = results[n].runId
                   /\ LogsOf(results[n])[i].by = n
            /\ \A i \in DOMAIN StepsOf(results[n]) : StepsOf(results[n])[i].by = n

Wit_C19 ==
    /\ rpc[1] = "closeContext"
    /\ rpc[2] = "closeContext"
    /\ runIds[1] # runIds[2]
    /\ Len(StepsOf(results[1])) = 1
    /\ Len(StepsOf(results[2])) = 1
    /\ Len(LogsOf(results[1])) = 2
    /\ Len(LogsOf(results[2])) = 2

\* C20 as stated: for every step of a step history, durationMs equals
\* finishedAt minus startedAt, the two recorded timestamps in milliseconds,
\* and startedAt is not later than finishedAt.
Claim_C20 ==
    \A i \in DOMAIN timed :
        /\ timed[i].durationMs
               = DateParse(timed[i].finishedAt) - DateParse(timed[i].startedAt)
        /\ DateParse(timed[i].startedAt) <= DateParse(timed[i].finishedAt)

\* no frame of the page shows a consent marker
NoMarker(pg) == \A f \in Frames : ~frameHasCookieUi(pg[f])

\* C21 as stated: called on a page none of whose frames shows a consent
\* marker, the consent handler returns false, does not throw, attempts no
\* click and leaves the page as it was, whatever other buttons the page shows.
Claim_C21 ==
    (apc = "done" /\ NoMarker(page0)) =>
        /\ aret = "false"
        /\ okClicks = {}
        /\ badClicks = {}
        /\ frames = page0

\* C22 as stated: the call of the consent handler ends by returning true if
\* and only if at least one dismissal click completed during the call; failed
\* click attempts do not count and a completed click is never forgotten.
Claim_C22 ==
    apc = "done" => (aret = "true" <=> okClicks # {})

\* C23 as stated: from the start of the wait to the return of
\* waitOutCaptchaIfPresent no more than CAPTCHA_MAX_GRACE_MS (45 s) elapse,
\* whatever the check results, the poll jitters and the reload outcomes.
Claim_C23 ==
    wpc = "done" => waited <= CAPTCHA_MAX_GRACE_MS

\* C24: waitOutCaptchaIfPresent returns true exactly when a check found no
\* challenge, and at the first such check; when the initial check is negative
\* it returns without simulated input, sleep or reload; it returns false only
\* once the grace ceiling has elapsed, every check having been positive.
Thm_C24 ==
    /\ nNegative > 0 <=> wret = "true"
    /\ nNegative <= 1
    /\ wret = "true" => (wpc = "done" /\ ~hasCaptcha(wpage))
    /\ (wret = "true" /\ nChecks = 1) =>
           (inputs = 0 /\ sleeps = 0 /\ reloads = {} /\ waited = 0 /\ wattempt = 0)
    /\ wret = "false" =>
           /\ wpc = "done"
           /\ waited >= CAPTCHA_MAX_GRACE_MS
           /\ nNegative = 0
           /\ nChecks = wattempt + 1

\* the call returned true at a recheck after a reload
Wit_C24 ==
    /\ wpc = "done"
    /\ wret = "true"
    /\ nChecks = 5
    /\ reloads = {3}
    /\ sleeps = 4

Claim_C26 ==
    /\ maxActive <= 1
    /\ active # {} => openBrowsers \subseteq active
    /\ bpc = "done" =>
           /\ bret.status = "returned"
           /\ Len(bret.results) = Len(blinks)
           /\ \A i \in DOMAIN blinks : bret.results[i].link = blinks[i]

\* C28 as stated: an oracle response that is not JSON of the shape Plan (an
\* object with an actions list and a finish flag), well-formed JSON of another
\* shape included, is never consumed as a plan: whenever the parse loop has
\* been left with a value, the text that value came from matches Plan.
Claim_C28 ==
    (ppc \in {"use", "done"} /\ pret # E_PLAN) =>
        MatchesPlan(JSONValue(ptexts[Len(ptexts)]))

\* C29: the consent handler runs before any challenge check. The challenge
\* check of a gate is entered only by a consent pass of the same gate that has
\* completed, after navigation and in every loop iteration alike, the poll
\* loop only from the challenge check, and no challenge check runs in a run
\* whose consent handler was never invoked.
Thm_C29 ==
    [][ /\ (pc' = "captchaCheck" /\ pc # "captchaCheck") =>
               (pc = "consent" /\ gate' = gate /\ "consentHandler" \in seen')
        /\ (pc' = "captchaWait" /\ pc # "captchaWait") =>
               pc \in {"captchaCheck", "captchaReload"}
        /\ pc \in {"captchaCheck", "captchaWait", "captchaReload"} =>
               "consentHandler" \in seen ]_vars

\* a mid-flow challenge check found a challenge after the mid-flow consent pass
Wit_C29 ==
    /\ gate = "mid"
    /\ pc = "captchaWait"
    /\ attempt = 0
    /\ stepCount = 1
    /\ {"consentHandler", "challengeMonitor"} \subseteq seen

\* C30 as stated: Done is declared only at the reclassification of an
\* iteration whose actions were all attempted and whose mid-flow consent and
\* challenge gates have run, never in a run whose challenge persisted; and an
\* iteration whose plan has finish=true, or whose page shows a success phrase,
\* and whose mid-flow challenge persisted through the grace window returns the
\* captchaBlocked result with success=false.
Claim_C30 ==
    [][ /\ (isDone' /\ ~isDone) =>
               /\ pc = "classify"
               /\ gate = "mid"
               /\ actIdx > Len(plan.actions)
               /\ "persisted" \notin seen
        /\ (pc = "captchaShot" /\ gate = "mid"
                /\ (plan.finish \/ hasSuccess(page))) =>
               /\ pc' = "finally"
               /\ retval' = CaptchaResult("mid", steps)
               /\ retval'.success = FALSE
               /\ retval'.captchaBlocked ]_vars

\* C31: within one planning iteration generateText is called at most
\* PLAN_PARSE_RETRIES + 1 = 3 times; the attempts stop at the first response
\* that parses; every failed attempt but the last is followed by one backoff
\* sleep, the last by none; and the pass throws only when the third attempt
\* has failed.
Thm_C31 ==
    /\ asked <= PLAN_PARSE_RETRIES + 1
    /\ ppc = "try" => (asked = pr /\ backoffs = pr /\ pr <= PLAN_PARSE_RETRIES)
    /\ (ppc \in {"use", "done"} /\ pret # E_PLAN) =>
           /\ asked = pr + 1
           /\ backoffs = pr
           /\ Len(ptexts) >= 1
           /\ JSONValue(ptexts[Len(ptexts)]).ok
           /\ \A i \in 1..(Len(ptexts) - 1) : ~JSONValue(ptexts[i]).ok
    /\ pret = E_PLAN =>
           /\ asked = PLAN_PARSE_RETRIES + 1
           /\ backoffs = PLAN_PARSE_RETRIES
           /\ \A i \in DOMAIN ptexts : ~JSONValue(ptexts[i]).ok

\* the third attempt failed after two backoff sleeps, two of the three
\* attempts having returned text that does not parse
Wit_C31 ==
    /\ pret = E_PLAN
    /\ asked = 3
    /\ backoffs = 2
    /\ ptexts = <<R_PROSE, R_PROSE>>

\* C32 as stated: the markup embedded in a plan request is the page's markup
\* at the time of the request: between the capture of lastHtml and the
\* request that embeds it no consent dismissal click, no challenge-wait
\* reload and no simulated input has happened.
Claim_C32 ==
    mpc = "exec" =>
        /\ embedded = lastHtml
        /\ since \cap {"consentClick", "reload", "simulatedInput"} = {}

\* the attempts up to n whose number is a multiple of three
EveryThird(n) == {k \in 1..n : k % 3 = 0}

\* C33: during a challenge wait the page is reloaded exactly after the
\* rechecks whose attempt number is a multiple of three and that still detect
\* the challenge, and after no other recheck: at the top of a round every
\* third attempt so far has had its reload, inside a round only those before
\* the current attempt; a reload that failed is one of them, and the wait went
\* on after it without failing its caller.
Thm_C33 ==
    /\ wpc \in {"while", "done"} /\ wret \in {"none", "false"} =>
           reloads = EveryThird(wattempt)
    /\ wpc \in {"input", "sleep", "recheck", "reload"} =>
           reloads = EveryThird(wattempt - 1)
    /\ wpc = "reload" => wattempt % 3 = 0
    /\ wret = "true" => reloads = EveryThird(wattempt - 1)
    /\ reloadErrors \subseteq reloads
    /\ \A k \in reloadErrors :
           \/ wattempt > k
           \/ wattempt = k /\ wpc \in {"while", "done"} /\ wret \in {"none", "false"}

\* the reload of the third attempt failed and the wait went on to clear at
\* the recheck of a later attempt, after the reload of the sixth
Wit_C33 ==
    /\ wpc = "done"
    /\ wret = "true"
    /\ wattempt = 7
    /\ reloads = {3, 6}
    /\ reloadErrors = {3}

\* C34 as stated: the consent handler always returns and never fails its
\* caller: every call ends by returning a boolean; no poll round starts once
\* the time budget has elapsed; and a call whose budget elapses returns
\* whether any click occurred.
Claim_C34 ==
    /\ apc = "done" => aret \in {"true", "false"}
    /\ (apc = "frame" /\ fi = 1) => spent < timeoutMs
    /\ (apc = "done" /\ spent >= timeoutMs) =>
           aret = (IF clickedAny THEN "true" ELSE "false")

\* C35: an action whose first failure message contains no overlay signature
\* is reported failed with that message, without a call of the consent handler
\* and without a second attempt; and whatever the action and its failures, one
\* call of the executor makes at most two attempts and calls the consent
\* handler at most once.
Thm_C35 ==
    /\ Pending =>
        \A o \in performActionWithCookieRetry(plan.actions[actIdx]) :
            /\ o.trail.attempts \in {1, 2}
            /\ Len(o.trail.consent) <= 1
            /\ o.trail.attempts = 2 => Len(o.trail.consent) = 1
            /\ (/\ ~Returned(o.trail.first)
                /\ \A sig \in OverlaySignatures :
                       ~LowerIncludes(o.trail.first, sig)) =>
                   /\ ~o.ok
                   /\ ~o.threw
                   /\ o.err = o.trail.first
                   /\ o.trail.consent = << >>
                   /\ o.trail.attempts = 1
    /\ \A i \in DOMAIN steps :
           steps[i].error = E_NONODE => steps[i].result = Undefined

\* a check whose selector matches no node was reported as a failed step after
\* a click that succeeded, and the loop went on
Wit_C35 ==
    /\ pc = "exec"
    /\ Len(steps) = 2
    /\ steps[1].result = "success"
    /\ steps[2].action = "check"
    /\ steps[2].error = E_NONODE
    /\ "retried" \notin seen
    /\ actIdx > Len(plan.actions)

\* a step in which an observer callback logged: some Logger got one more
\* entry, with an observer's message
ObserverLogged ==
    \E id \in DOMAIN loggers :
        /\ Len(loggers'[id].logs) = Len(loggers[id].logs) + 1
        /\ <<loggers'[id].logs[Len(loggers'[id].logs)].level,
             loggers'[id].logs[Len(loggers'[id].logs)].message>> \in PageEvents

\* C36: an observer callback, at whatever point of a run it fires, only
\* appends a log entry: the entries logged before stay as they were, and the
\* step histories, the position of every run (so no run is aborted), the
\* results, the run ids and the references of every run stay unchanged.
Thm_C36 ==
    [][ObserverLogged =>
          /\ \A id \in DOMAIN loggers :
                 /\ loggers'[id].runId = loggers[id].runId
                 /\ Len(loggers'[id].logs) >= Len(loggers[id].logs)
                 /\ \A i \in DOMAIN loggers[id].logs :
                        loggers'[id].logs[i] = loggers[id].logs[i]
          /\ stepArrays' = stepArrays
          /\ rpc' = rpc
          /\ results' = results
          /\ <<runIds, logRef, stepsRef, listening>>'
                 = <<runIds, logRef, stepsRef, listening>>
          /\ run1' = run1]_vars

\* an observer of run 1 logged while run 1 and run 2 were both inside their
\* step loops, run 2 with its first step already pushed
Wit_C36 ==
    /\ rpc[1] = "running"
    /\ rpc[2] = "running"
    /\ Len(stepArrays[stepsRef[2]]) = 1
    /\ Len(loggers[logRef[1]].logs) = 2
    /\ loggers[logRef[1]].logs[2].message = "browser console: log"
    /\ loggers[logRef[1]].logs[2].by = 1

\* C37 as stated: in the result the caller receives, jsonlLogs is the
\* line-delimited serialization of exactly the entries of logs, same entries
\* in the same order, on every exit path, also when browser events are logged
\* while the context and the browser are being closed.
Claim_C37 ==
    \A n \in Runs :
        rpc[n] = "returned" =>
            results[n].jsonlLogs
                = [i \in DOMAIN LogsOf(results[n]) |->
                       JSONStringify(LogsOf(results[n])[i])]

\* C38 as stated: every entry of a returned step history carries exactly one
\* of result="success" and an error, whatever action the oracle returned and
\* however its execution failed.
Claim_C38 ==
    (pc = "returned" /\ result.hasSteps) =>
        \A i \in DOMAIN result.steps :
            \/ /\ result.steps[i].result = "success"
               /\ result.steps[i].error = Undefined
            \/ /\ result.steps[i].result = Undefined
               /\ result.steps[i].error \notin {Undefined, ""}

\* C39: in every returned result captchaBlocked=true implies success=false and
\* method="AUTOMATED"; error is set if and only if method="ERROR", which
\* implies success=false; and success=true implies that method is "MAILTO" or
\* "AUTOMATED" and that neither captchaBlocked nor error is set. The keys of
\* the object agree with the values.
Thm_C39 ==
    pc = "returned" =>
        /\ result.captchaBlocked =>
               (result.success = FALSE /\ result.method = "AUTOMATED")
        /\ (result.error # Undefined) <=> (result.method = "ERROR")
        /\ ("error" \in result.keys) <=> (result.method = "ERROR")
        /\ ("captchaBlocked" \in result.keys) <=> result.captchaBlocked
        /\ result.method = "ERROR" => result.success = FALSE
        /\ result.success = TRUE =>
               /\ result.method \in {"MAILTO", "AUTOMATED"}
               /\ ~result.captchaBlocked
               /\ result.error = Undefined
        /\ result.method \in {"MAILTO", "AUTOMATED", "ERROR"}

\* a run blocked by a challenge that persisted mid-flow has returned, one step
\* in its history
Wit_C39 ==
    /\ pc = "returned"
    /\ result.captchaBlocked
    /\ result.details = CaptchaDetails("mid")
    /\ Len(result.steps) = 1
    /\ result.screenshot = Image

\* every call the run awaits returns or fails in finite time: a step that
\* stays possible is eventually taken
Fairness == WF_vars(Next)

SpecLive == Init /\ [][Next]_vars /\ Fairness

====
